---- MODULE Spec2Model ----
(***************************************************************************)
(* Slitherlink solver (src/main.cpp): the edge/incidence graph, the        *)
(* incremental State, the worklist propagator, the branching heuristic,    *)
(* the final cycle validator and the fork-join backtracking search.        *)
(*                                                                         *)
(* Ids are 0-based as in the source; a C++ vector is a TLA+ sequence and   *)
(* element i of vector x is At(x, i).                                      *)
(***************************************************************************)
EXTENDS Integers, Sequences, FiniteSets, TLC

VARIABLES
    grid,             \* Solver::grid  [n, m, clues]
    charSigned,       \* whether the build's plain char is signed
    findAll,          \* Solver::findAll
    maxThreads,       \* Solver::maxThreads
    maxParallelDepth, \* Solver::maxParallelDepth
    edges,            \* Solver::edges
    numPoints,        \* Solver::numPoints
    horizEdgeIndex,   \* Solver::horizEdgeIndex
    vertEdgeIndex,    \* Solver::vertEdgeIndex
    cellEdges,        \* Solver::cellEdges
    pointEdges,       \* Solver::pointEdges
    clueCells,        \* Solver::clueCells
    stopAfterFirst,   \* Solver::stopAfterFirst
    solutions,        \* Solver::solutions
    solutionCount,    \* Solver::solutionCount
    activeThreads,    \* Solver::activeThreads
    solPaths,         \* history: the path of each recorded solution
    threads,          \* call stacks: thread 0 is the caller of run()
    phase             \* position of run(): "new", "running", "done"

graphVars == <<edges, numPoints, horizEdgeIndex, vertEdgeIndex,
               cellEdges, pointEdges, clueCells>>
confVars == <<grid, charSigned, findAll, maxThreads, maxParallelDepth>>
sharedVars == <<stopAfterFirst, solutions, solutionCount, activeThreads>>
vars == <<confVars, graphVars, sharedVars, solPaths, threads, phase>>

----------------------------------------------------------------------------
(* Bounds of the model *)

\* largest worker count passed to run()
\* largest row count and column count of the grids given to the graph builder
MaxSide == 3

\* largest cell count of the grids the depth limit is computed for
MaxArea == 226

MaxWorkers == 2

----------------------------------------------------------------------------
(* Vectors *)

At(x, i) == x[i + 1]

SetAt(x, i, v) == [x EXCEPT ![i + 1] = v]

Fill(k, v) == [i \in 1..k |-> v]

PushBackAt(x, i, v) == [x EXCEPT ![i + 1] = Append(@, v)]

Max(a, b) == IF a >= b THEN a ELSE b

Min(a, b) == IF a <= b THEN a ELSE b

Abs(a) == IF a >= 0 THEN a ELSE -a

\* the value a plain char holds after an int is stored in it
ToChar(v) == IF charSigned THEN v ELSE v % 256

----------------------------------------------------------------------------
(* Grid and graph builder *)

cellIndex(g, r, c) == r * g.m + c

\* point ids counted with the cell row's width
pointIdNarrow(m, r, c) == r * m + c

pointId(m, r, c) == r * (m + 1) + c

\* push one edge and its incidences; b.idx is the running edge id
PushIf(x, i, v) == IF i >= 0 THEN PushBackAt(x, i, v) ELSE x

\* an edge that is pushed into the list of its second cell only
PushEdgeOneSide(b, e) ==
    [b EXCEPT !.edges = Append(@, e),
              !.cellEdges = PushIf(@, e.cellB, b.idx),
              !.pointEdges = PushBackAt(PushBackAt(@, e.u, b.idx), e.v, b.idx),
              !.idx = @ + 1]

PushEdge(b, e) ==
    [b EXCEPT !.edges = Append(@, e),
              !.cellEdges = PushIf(PushIf(@, e.cellA, b.idx), e.cellB, b.idx),
              !.pointEdges = PushBackAt(PushBackAt(@, e.u, b.idx), e.v, b.idx),
              !.idx = @ + 1]

RECURSIVE HorizLoop(_, _, _, _)
HorizLoop(b, g, r, c) ==
    IF r > g.n THEN b
    ELSE IF c >= g.m THEN HorizLoop(b, g, r + 1, 0)
    ELSE HorizLoop(
             PushEdge([b EXCEPT !.horizEdgeIndex = SetAt(@, r * g.m + c, b.idx)],
                      [u |-> pointId(g.m, r, c), v |-> pointId(g.m, r, c + 1),
                       cellA |-> IF r > 0 THEN cellIndex(g, r - 1, c) ELSE -1,
                       cellB |-> IF r < g.n THEN cellIndex(g, r, c) ELSE -1]),
             g, r, c + 1)

RECURSIVE VertLoop(_, _, _, _)
VertLoop(b, g, r, c) ==
    IF r >= g.n THEN b
    ELSE IF c > g.m THEN VertLoop(b, g, r + 1, 0)
    ELSE VertLoop(
             PushEdge([b EXCEPT !.vertEdgeIndex = SetAt(@, r * (g.m + 1) + c, b.idx)],
                      [u |-> pointId(g.m, r, c), v |-> pointId(g.m, r + 1, c),
                       cellA |-> IF c > 0 THEN cellIndex(g, r, c - 1) ELSE -1,
                       cellB |-> IF c < g.m THEN cellIndex(g, r, c) ELSE -1]),
             g, r, c + 1)

RECURSIVE ClueLoop(_, _, _)
ClueLoop(g, i, acc) ==
    IF i >= Len(g.clues) THEN acc
    ELSE ClueLoop(g, i + 1, IF At(g.clues, i) >= 0 THEN Append(acc, i) ELSE acc)

\* the assign() and clear() calls that open buildEdges
EmptyGraph(g) ==
    [edges |-> <<>>, idx |-> 0,
     numPoints |-> (g.n + 1) * (g.m + 1),
     horizEdgeIndex |-> Fill((g.n + 1) * g.m, -1),
     vertEdgeIndex |-> Fill(g.n * (g.m + 1), -1),
     cellEdges |-> Fill(g.n * g.m, <<>>),
     pointEdges |-> Fill((g.n + 1) * (g.m + 1), <<>>),
     clueCells |-> <<>>]

buildEdges(g) ==
    [VertLoop(HorizLoop(EmptyGraph(g), g, 0, 0), g, 0, 0)
        EXCEPT !.clueCells = ClueLoop(g, 0, <<>>)]

calculateOptimalParallelDepth(g) ==
    LET totalCells == g.n * g.m
        clueCount == Cardinality({i \in 1..Len(g.clues) : g.clues[i] >= 0})
        depth == IF totalCells <= 25 THEN 8
                 ELSE IF totalCells <= 49 THEN 12
                 ELSE IF totalCells <= 64 THEN 14
                 ELSE IF totalCells <= 100 THEN 32
                 ELSE IF totalCells <= 144 THEN 34
                 ELSE IF totalCells <= 225 THEN 36 ELSE 38
        \* density < 0.3, in integers: clueCount / totalCells < 3 / 10
        sparse == 10 * clueCount < 3 * totalCells
    IN Max(10, Min(45, IF sparse THEN depth + 6 ELSE depth))

----------------------------------------------------------------------------
(* State *)

\* a default-constructed State: five empty vectors
EmptyState ==
    [edgeState |-> <<>>, pointDegree |-> <<>>, pointUndecided |-> <<>>,
     cellEdgeCount |-> <<>>, cellUndecided |-> <<>>]

\* initialState() over the built graph b of grid g
initialState(g, b) ==
    [edgeState |-> Fill(Len(b.edges), 0),
     pointDegree |-> Fill(b.numPoints, 0),
     pointUndecided |-> [i \in 1..b.numPoints |-> Len(b.pointEdges[i])],
     cellEdgeCount |-> Fill(Len(g.clues), 0),
     cellUndecided |-> [i \in 1..Len(b.cellEdges) |-> Len(b.cellEdges[i])]]

\* x[i]--
Dec(x, i) == [x EXCEPT ![i + 1] = @ - 1]

\* x[i]++
Inc(x, i) == [x EXCEPT ![i + 1] = @ + 1]

\* if (cell >= 0) x[cell]--
DecIf(x, cell) == IF cell >= 0 THEN Dec(x, cell) ELSE x

\* edgeState[edgeIdx] = val and the four undecided-counter decrements
MarkEdge(s, edgeIdx, val, e) ==
    [s EXCEPT !.edgeState = SetAt(@, edgeIdx, ToChar(val)),
              !.pointUndecided = Dec(Dec(@, e.u), e.v),
              !.cellUndecided = DecIf(DecIf(@, e.cellA), e.cellB)]

\* an applyDecision that does not look at the clue
ClueExceededNever(s, cell) == FALSE

\* grid.clues[cell] >= 0 && cnt > grid.clues[cell], cnt the incremented count
ClueExceeded(s, cell) ==
    /\ At(grid.clues, cell) >= 0
    /\ At(s.cellEdgeCount, cell) > At(grid.clues, cell)

\* applyDecision, val == 1: the block for cellB
ApplyOnCellB(s, e) ==
    IF e.cellB < 0 THEN [ok |-> TRUE, s |-> s]
    ELSE [ok |-> ~ClueExceeded([s EXCEPT !.cellEdgeCount = Inc(@, e.cellB)], e.cellB),
          s |-> [s EXCEPT !.cellEdgeCount = Inc(@, e.cellB)]]

\* applyDecision, val == 1: the block for cellA
ApplyOnCellA(s, e) ==
    IF e.cellA < 0 THEN ApplyOnCellB(s, e)
    ELSE IF ClueExceeded([s EXCEPT !.cellEdgeCount = Inc(@, e.cellA)], e.cellA)
         THEN [ok |-> FALSE, s |-> [s EXCEPT !.cellEdgeCount = Inc(@, e.cellA)]]
    ELSE ApplyOnCellB([s EXCEPT !.cellEdgeCount = Inc(@, e.cellA)], e)

\* applyDecision, val == 1: s has both endpoint degrees incremented
ApplyOnDegrees(s, e) ==
    IF At(s.pointDegree, e.u) > 2 \/ At(s.pointDegree, e.v) > 2
    THEN [ok |-> FALSE, s |-> s]
    ELSE ApplyOnCellA(s, e)

\* applyDecision: [ok, s], s being the State as the call leaves it
applyDecision(s, edgeIdx, val) ==
    IF At(s.edgeState, edgeIdx) = val THEN [ok |-> TRUE, s |-> s]
    ELSE IF At(s.edgeState, edgeIdx) # 0 THEN [ok |-> FALSE, s |-> s]
    ELSE IF val # 1
         THEN [ok |-> TRUE, s |-> MarkEdge(s, edgeIdx, val, At(edges, edgeIdx))]
    ELSE ApplyOnDegrees(
             [MarkEdge(s, edgeIdx, val, At(edges, edgeIdx))
                 EXCEPT !.pointDegree = Inc(Inc(@, At(edges, edgeIdx).u),
                                            At(edges, edgeIdx).v)],
             At(edges, edgeIdx))

quickValidityCheck(s) ==
    /\ \A i \in 0..(numPoints - 1) :
          /\ ~(At(s.pointDegree, i) > 2)
          /\ ~(At(s.pointDegree, i) = 1 /\ At(s.pointUndecided, i) = 0)
    /\ \A k \in 1..Len(clueCells) :
          /\ ~(At(s.cellEdgeCount, clueCells[k]) > At(grid.clues, clueCells[k]))
          /\ ~(At(s.cellEdgeCount, clueCells[k]) + At(s.cellUndecided, clueCells[k])
                  < At(grid.clues, clueCells[k]))

isDefinitelyUnsolvable(s) ==
    \/ \E i \in 0..(numPoints - 1) :
          \/ (At(s.pointDegree, i) = 1 /\ At(s.pointUndecided, i) = 0)
          \/ (At(s.pointDegree, i) > 0
                 /\ At(s.pointDegree, i) + At(s.pointUndecided, i) < 2)
          \/ At(s.pointDegree, i) > 2
    \/ \E k \in 1..Len(clueCells) :
          \/ At(s.cellEdgeCount, clueCells[k]) > At(grid.clues, clueCells[k])
          \/ At(s.cellEdgeCount, clueCells[k]) + At(s.cellUndecided, clueCells[k])
                < At(grid.clues, clueCells[k])

----------------------------------------------------------------------------
(* Propagator: propagateConstraints as a worklist machine.                 *)
(* q = [s, cellQueue, pointQueue, cellQueued, pointQueued, cellPos,        *)
(*      pointPos, loop, result]; loop names the inner while being run.     *)

\* if (cell >= 0 && !cellQueued[cell] && grid.clues[cell] >= 0) push
EnqueueCell(q, cell) ==
    IF cell < 0 THEN q
    ELSE IF At(q.cellQueued, cell) = 0 /\ At(grid.clues, cell) >= 0
    THEN [q EXCEPT !.cellQueue = Append(@, cell),
                   !.cellQueued = SetAt(@, cell, 1)]
    ELSE q

\* a push that does not look at the is-queued flag
EnqueuePointAlways(q, pt) ==
    [q EXCEPT !.pointQueue = Append(@, pt),
              !.pointQueued = SetAt(@, pt, 1)]

\* if (!pointQueued[pt]) push
EnqueuePoint(q, pt) ==
    IF At(q.pointQueued, pt) = 0
    THEN [q EXCEPT !.pointQueue = Append(@, pt),
                   !.pointQueued = SetAt(@, pt, 1)]
    ELSE q

\* an OFF path that leaves the counters alone
SetOffEdgeOnly(s, eidx) == [s EXCEPT !.edgeState = SetAt(@, eidx, ToChar(-1))]

\* the direct OFF path: edgeState = -1 and the undecided counters
SetOff(s, eidx) == MarkEdge(s, eidx, -1, At(edges, eidx))

\* the endpoint of e that is not ptIdx
OtherPt(e, ptIdx) == IF e.u = ptIdx THEN e.v ELSE e.u

\* cell rule, ON branch: after applyDecision returned r for edge e
CellForcedOn(q, r, e) ==
    IF ~r.ok THEN [q EXCEPT !.s = r.s, !.result = "fail"]
    ELSE EnqueuePoint(EnqueuePoint(EnqueueCell(EnqueueCell(
             [q EXCEPT !.s = r.s], e.cellA), e.cellB), e.u), e.v)

\* vertex rule, ON branch: after applyDecision returned r for edge e
PointForcedOn(q, r, e, ptIdx) ==
    IF ~r.ok THEN [q EXCEPT !.s = r.s, !.result = "fail"]
    ELSE EnqueuePoint(EnqueueCell(EnqueueCell(
             [q EXCEPT !.s = r.s], e.cellA), e.cellB), OtherPt(e, ptIdx))

\* a rule iteration that does not test whether the edge is still undecided
ForceEdgeAnyState(q, rule, ptIdx, eidx) ==
    CASE rule = "cellOn" ->
            CellForcedOn(q, applyDecision(q.s, eidx, 1), At(edges, eidx))
      [] rule = "cellOff" ->
            EnqueuePoint(EnqueuePoint([q EXCEPT !.s = SetOff(@, eidx)],
                                      At(edges, eidx).u), At(edges, eidx).v)
      [] rule = "pointOn" ->
            PointForcedOn(q, applyDecision(q.s, eidx, 1), At(edges, eidx), ptIdx)
      [] OTHER ->
            EnqueuePoint([q EXCEPT !.s = SetOff(@, eidx)],
                         OtherPt(At(edges, eidx), ptIdx))

\* the body of one for (int eidx : ...) iteration of the four rule branches
ForceEdge(q, rule, ptIdx, eidx) ==
    IF At(q.s.edgeState, eidx) # 0 THEN q
    ELSE CASE rule = "cellOn" ->
                CellForcedOn(q, applyDecision(q.s, eidx, 1), At(edges, eidx))
           [] rule = "cellOff" ->
                EnqueuePoint(EnqueuePoint([q EXCEPT !.s = SetOff(@, eidx)],
                                          At(edges, eidx).u), At(edges, eidx).v)
           [] rule = "pointOn" ->
                PointForcedOn(q, applyDecision(q.s, eidx, 1), At(edges, eidx), ptIdx)
           [] OTHER ->
                EnqueuePoint([q EXCEPT !.s = SetOff(@, eidx)],
                             OtherPt(At(edges, eidx), ptIdx))

\* for (int eidx : list) ... with the early return on a failed applyDecision
RECURSIVE EdgeLoop(_, _, _, _, _)
EdgeLoop(q, list, k, rule, ptIdx) ==
    IF k > Len(list) \/ q.result = "fail" \/ rule = "none" THEN q
    ELSE EdgeLoop(ForceEdge(q, rule, ptIdx, list[k]), list, k + 1, rule, ptIdx)

\* a cell rule without its ON branch
CellRuleOffOnly(s, cellIdx) ==
    IF At(grid.clues, cellIdx) < 0 THEN "none"
    ELSE IF At(s.cellEdgeCount, cellIdx) = At(grid.clues, cellIdx)
               /\ At(s.cellUndecided, cellIdx) > 0
         THEN "cellOff"
    ELSE "none"

\* which branch of the cell rule applies
CellRule(s, cellIdx) ==
    IF At(grid.clues, cellIdx) < 0 THEN "none"
    ELSE IF At(s.cellEdgeCount, cellIdx) + At(s.cellUndecided, cellIdx)
               = At(grid.clues, cellIdx)
         THEN "cellOn"
    ELSE IF At(s.cellEdgeCount, cellIdx) = At(grid.clues, cellIdx)
               /\ At(s.cellUndecided, cellIdx) > 0
         THEN "cellOff"
    ELSE "none"

\* a vertex rule that completes a vertex of ON-degree 1 whatever the number
\* of its undecided edges
PointRuleAnyUndecided(s, ptIdx) ==
    IF At(s.pointDegree, ptIdx) >= 2
          \/ (At(s.pointDegree, ptIdx) = 0 /\ At(s.pointUndecided, ptIdx) = 0)
    THEN "none"
    ELSE IF At(s.pointDegree, ptIdx) = 1 THEN "pointOn"
    ELSE "none"

\* which branch of the vertex rule applies
PointRule(s, ptIdx) ==
    IF At(s.pointDegree, ptIdx) >= 2
          \/ (At(s.pointDegree, ptIdx) = 0 /\ At(s.pointUndecided, ptIdx) = 0)
    THEN "none"
    ELSE IF At(s.pointDegree, ptIdx) = 1 /\ At(s.pointUndecided, ptIdx) = 1
         THEN "pointOn"
    ELSE IF At(s.pointDegree, ptIdx) = 2 /\ At(s.pointUndecided, ptIdx) > 0
         THEN "pointOff"
    ELSE "none"

\* an iteration that reads the head of the cell list and leaves it there
ProcessCellNoAdvance(q) ==
    EdgeLoop([q EXCEPT !.cellQueued = SetAt(@, At(q.cellQueue, q.cellPos), 0)],
             At(cellEdges, At(q.cellQueue, q.cellPos)), 1,
             CellRule(q.s, At(q.cellQueue, q.cellPos)), -1)

\* one iteration of the inner cell loop
ProcessCell(q) ==
    EdgeLoop([q EXCEPT !.cellPos = @ + 1,
                       !.cellQueued = SetAt(@, At(q.cellQueue, q.cellPos), 0)],
             At(cellEdges, At(q.cellQueue, q.cellPos)), 1,
             CellRule(q.s, At(q.cellQueue, q.cellPos)), -1)

\* one iteration of the inner point loop
ProcessPoint(q) ==
    EdgeLoop([q EXCEPT !.pointPos = @ + 1,
                       !.pointQueued = SetAt(@, At(q.pointQueue, q.pointPos), 0)],
             At(pointEdges, At(q.pointQueue, q.pointPos)), 1,
             PointRule(q.s, At(q.pointQueue, q.pointPos)),
             At(q.pointQueue, q.pointPos))

RECURSIVE PushCells(_, _)
PushCells(q, k) ==
    IF k > Len(clueCells) THEN q
    ELSE PushCells([q EXCEPT !.cellQueue = Append(@, clueCells[k]),
                             !.cellQueued = SetAt(@, clueCells[k], 1)], k + 1)

RECURSIVE PushPoints(_, _)
PushPoints(q, i) ==
    IF i >= numPoints THEN q
    ELSE PushPoints([q EXCEPT !.pointQueue = Append(@, i),
                              !.pointQueued = SetAt(@, i, 1)], i + 1)

\* the first loop of propagateConstraints: some clued cell is over or short
CluePrecheckFails(s) ==
    \E k \in 1..Len(clueCells) :
       \/ At(s.cellEdgeCount, clueCells[k]) > At(grid.clues, clueCells[k])
       \/ At(s.cellEdgeCount, clueCells[k]) + At(s.cellUndecided, clueCells[k])
             < At(grid.clues, clueCells[k])

\* the empty queues and flags
NewQueues(s, result) ==
    [s |-> s, cellQueue |-> <<>>, pointQueue |-> <<>>,
     cellQueued |-> Fill(Len(grid.clues), 0),
     pointQueued |-> Fill(numPoints, 0),
     cellPos |-> 0, pointPos |-> 0,
     loop |-> "cells", result |-> result]

\* the entry of propagateConstraints: the clue pre-check and the full queues
PropStart(s) ==
    IF CluePrecheckFails(s) THEN NewQueues(s, "fail")
    ELSE PushPoints(PushCells(NewQueues(s, "run"), 1), 0)

\* one step of the nested while loops
PropStep(q) ==
    IF q.loop = "cells"
    THEN IF q.cellPos < Len(q.cellQueue) THEN ProcessCell(q)
         ELSE [q EXCEPT !.loop = "points"]
    ELSE IF q.pointPos < Len(q.pointQueue) THEN ProcessPoint(q)
         ELSE IF q.cellPos < Len(q.cellQueue) THEN [q EXCEPT !.loop = "cells"]
         ELSE [q EXCEPT !.result = "ok"]

RECURSIVE PropRun(_)
PropRun(q) == IF q.result # "run" THEN q ELSE PropRun(PropStep(q))

\* what propagateConstraints returns from the final machine state q
PropResult(q) == [ok |-> q.result = "ok", s |-> q.s]

\* propagateConstraints: [ok, s]
propagateConstraints(s) == PropResult(PropRun(PropStart(s)))

----------------------------------------------------------------------------
(* Branching heuristic *)

\* an estimate without its "must be OFF" case
estimateBranchesOnOnly(s, edgeIdx) ==
    IF \/ (At(s.pointDegree, At(edges, edgeIdx).u) = 1
              /\ At(s.pointUndecided, At(edges, edgeIdx).u) = 1)
       \/ (At(s.pointDegree, At(edges, edgeIdx).v) = 1
              /\ At(s.pointUndecided, At(edges, edgeIdx).v) = 1)
    THEN 1
    ELSE 2

estimateBranches(s, edgeIdx) ==
    LET e == At(edges, edgeIdx)
        degU == At(s.pointDegree, e.u)
        degV == At(s.pointDegree, e.v)
        undU == At(s.pointUndecided, e.u)
        undV == At(s.pointUndecided, e.v)
    IN IF (degU = 1 /\ undU = 1) \/ (degV = 1 /\ undV = 1) THEN 1
       ELSE IF degU >= 2 \/ degV >= 2 THEN 1
       ELSE 2

scoreCell(s, cellIdx) ==
    IF cellIdx < 0 THEN 0
    ELSE IF At(grid.clues, cellIdx) < 0 THEN 0
    ELSE LET clue == At(grid.clues, cellIdx)
             cnt == At(s.cellEdgeCount, cellIdx)
             und == At(s.cellUndecided, cellIdx)
             need == clue - cnt
         IN IF und = 0 THEN 0
            ELSE IF need = und \/ need = 0 THEN 2000
            ELSE IF und = 1 THEN 1500
            ELSE IF und <= 2 THEN 1000
            ELSE Max(0, 100 - Abs(need * 2 - und))

edgeScore(s, i) ==
    LET e == At(edges, i)
        degU == At(s.pointDegree, e.u)
        degV == At(s.pointDegree, e.v)
        undU == At(s.pointUndecided, e.u)
        undV == At(s.pointUndecided, e.v)
    IN (IF degU = 1 \/ degV = 1 THEN 10000 ELSE 0)
       + (IF (degU = 0 /\ undU = 2) \/ (degV = 0 /\ undV = 2) THEN 5000 ELSE 0)
       + scoreCell(s, e.cellA) + scoreCell(s, e.cellB)

\* a comparison that lets a later edge of equal score replace the best edge
BetterOrEqual(branches, score, minBranches, bestScore) ==
    branches < minBranches \/ (branches = minBranches /\ score >= bestScore)

\* the if that closes the loop body: does edge i become the best edge
Better(branches, score, minBranches, bestScore) ==
    branches < minBranches \/ (branches = minBranches /\ score > bestScore)

\* the for loop of selectNextEdge, from edge i on
RECURSIVE SelectLoop(_, _, _, _, _)
SelectLoop(s, i, bestEdge, minBranches, bestScore) ==
    IF i >= Len(edges)
    THEN (IF bestEdge >= 0 THEN bestEdge ELSE Len(edges))
    ELSE IF At(s.edgeState, i) # 0
         THEN SelectLoop(s, i + 1, bestEdge, minBranches, bestScore)
    ELSE IF estimateBranches(s, i) = 1 THEN i
    ELSE IF Better(estimateBranches(s, i), edgeScore(s, i), minBranches, bestScore)
         THEN SelectLoop(s, i + 1, i, estimateBranches(s, i), edgeScore(s, i))
    ELSE SelectLoop(s, i + 1, bestEdge, minBranches, bestScore)

\* a selection that starts from a best no two-way edge can beat
selectNextEdgeNoCandidate(s) == SelectLoop(s, 0, -1, 2, 20000)

selectNextEdge(s) == SelectLoop(s, 0, -1, 3, -1000)

----------------------------------------------------------------------------
(* Final validator and cycle extractor *)

\* adj[e.u].push_back(e.v), adj[e.v].push_back(e.u) over the ON edges;
\* start is the u of the first ON edge
RECURSIVE AdjLoop(_, _, _)
AdjLoop(s, i, acc) ==
    IF i >= Len(edges) THEN acc
    ELSE IF At(s.edgeState, i) # 1 THEN AdjLoop(s, i + 1, acc)
    ELSE AdjLoop(s, i + 1,
                 [adj |-> PushBackAt(PushBackAt(acc.adj, At(edges, i).u,
                                                At(edges, i).v),
                                     At(edges, i).v, At(edges, i).u),
                  start |-> IF acc.start = -1 THEN At(edges, i).u ELSE acc.start])

\* for (int to : adj[v]) of the traversal; d = [st, vis, visitedEdges]
RECURSIVE VisitLoop(_, _, _)
VisitLoop(d, list, k) ==
    IF k > Len(list) THEN d
    ELSE IF At(d.vis, list[k]) = 0
         THEN VisitLoop([d EXCEPT !.visitedEdges = @ + 1,
                                  !.vis = SetAt(@, list[k], 1),
                                  !.st = Append(@, list[k])], list, k + 1)
    ELSE VisitLoop([d EXCEPT !.visitedEdges = @ + 1], list, k + 1)

\* while (!st.empty()): pop the top, visit its neighbours
RECURSIVE Traverse(_, _)
Traverse(adj, d) ==
    IF Len(d.st) = 0 THEN d
    ELSE Traverse(adj, VisitLoop([d EXCEPT !.st = SubSeq(@, 1, Len(@) - 1)],
                                 At(adj, d.st[Len(d.st)]), 1))

\* coordinates taken with the row count in place of the column count
coordByRows(id) == <<id \div (grid.n + 1), id % (grid.n + 1)>>

coord(id) == <<id \div (grid.m + 1), id % (grid.m + 1)>>

\* next = (adj[cur][0] != prev) ? adj[cur][0] : adj[cur][1]
NextPoint(adj, cur, prev) ==
    IF At(adj, cur)[1] # prev THEN At(adj, cur)[1] ELSE At(adj, cur)[2]

\* an extraction that stops one point short of the start
RECURSIVE CycleLoopShort(_, _, _, _, _)
CycleLoopShort(adj, cur, prev, start, cycle) ==
    IF NextPoint(adj, cur, prev) # start
    THEN CycleLoopShort(adj, NextPoint(adj, cur, prev), cur, start,
                        Append(cycle, coord(cur)))
    ELSE cycle

\* the do-while that extracts the cycle
RECURSIVE CycleLoop(_, _, _, _, _)
CycleLoop(adj, cur, prev, start, cycle) ==
    IF NextPoint(adj, cur, prev) # start
    THEN CycleLoop(adj, NextPoint(adj, cur, prev), cur, start,
                   Append(cycle, coord(cur)))
    ELSE Append(cycle, coord(cur))

RECURSIVE SumDeg(_, _)
SumDeg(adj, v) ==
    IF v >= numPoints THEN 0 ELSE Len(At(adj, v)) + SumDeg(adj, v + 1)

NoSolution == [edgeState |-> <<>>, cyclePoints |-> <<>>]

Rejected == [valid |-> FALSE, sol |-> NoSolution]

\* a validator without the two reachability checks
CheckTraversalUnchecked(s, adj, start, d) ==
    [valid |-> TRUE,
     sol |-> [edgeState |-> s.edgeState,
              cyclePoints |-> Append(CycleLoop(adj, start, -1, start, <<>>),
                                     coord(start))]]

\* finalCheckAndStore after the traversal d: the reachability checks and
\* the cycle extraction
CheckTraversal(s, adj, start, d) ==
    IF \E v \in 0..(numPoints - 1) : Len(At(adj, v)) = 2 /\ At(d.vis, v) = 0
    THEN Rejected
    ELSE IF d.visitedEdges \div 2 # SumDeg(adj, 0) \div 2 THEN Rejected
    ELSE [valid |-> TRUE,
          sol |-> [edgeState |-> s.edgeState,
                   cyclePoints |-> Append(CycleLoop(adj, start, -1, start, <<>>),
                                          coord(start))]]

\* finalCheckAndStore after adj and start are built: the degree checks
CheckDegrees(s, adj, start) ==
    IF start = -1 THEN Rejected
    ELSE IF \E v \in 0..(numPoints - 1) : Len(At(adj, v)) # 0 /\ Len(At(adj, v)) # 2
         THEN Rejected
    ELSE IF SumDeg(adj, 0) \div 2 = 0 THEN Rejected
    ELSE CheckTraversal(s, adj, start,
             Traverse(adj, [st |-> <<start>>,
                            vis |-> SetAt(Fill(numPoints, 0), start, 1),
                            visitedEdges |-> 0]))

CheckAdj(s, a) == CheckDegrees(s, a.adj, a.start)

\* the checks and the extraction of finalCheckAndStore: [valid, sol]
finalCheck(s) ==
    IF \E k \in 1..Len(clueCells) :
          At(s.cellEdgeCount, clueCells[k]) # At(grid.clues, clueCells[k])
    THEN Rejected
    ELSE CheckAdj(s, AdjLoop(s, 0, [adj |-> Fill(numPoints, <<>>), start |-> -1]))

\* std::swap(x[i], x[j])
Swap(x, i, j) == [x EXCEPT ![i + 1] = x[j + 1], ![j + 1] = x[i + 1]]

\* the two nested loops of isCanonicalSolution
RECURSIVE ReflectLoop(_, _, _)
ReflectLoop(reflected, r, c) ==
    IF r >= grid.n THEN reflected
    ELSE IF c >= grid.m \div 2 THEN ReflectLoop(reflected, r + 1, 0)
    ELSE LET leftH == At(horizEdgeIndex, r * grid.m + c)
             rightH == At(horizEdgeIndex, r * grid.m + (grid.m - 1 - c))
         IN ReflectLoop(IF leftH >= 0 /\ rightH >= 0
                        THEN Swap(reflected, leftH, rightH) ELSE reflected,
                        r, c + 1)

\* vector<char> operator< : lexicographic on the char values
LexLess(a, b) ==
    \/ \E i \in 1..Min(Len(a), Len(b)) :
          /\ a[i] < b[i]
          /\ \A j \in 1..(i - 1) : a[j] = b[j]
    \/ (Len(a) < Len(b) /\ \A j \in 1..Len(a) : a[j] = b[j])

\* the reflected vector is not smaller than the solution's
ReflectionNotSmaller(sol) ==
    ~LexLess(ReflectLoop(sol.edgeState, 0, 0), sol.edgeState)

\* a filter applied in both modes
isCanonicalSolutionBothModes(sol) == ReflectionNotSmaller(sol)

isCanonicalSolution(sol) ==
    IF ~findAll THEN TRUE ELSE ReflectionNotSmaller(sol)

----------------------------------------------------------------------------
(* Search driver.                                                          *)
(* A call of search() is a frame [pc, s, off, on, sol, depth, edgeIdx,     *)
(* fut, path] on the stack of the thread that runs it.  path lists the     *)
(* values taken at the two-way branches above the call; it is history      *)
(* only and decides nothing.                                               *)

OFF == -1

ON == 1

Frame(pc, s, off, on, sol, depth, edgeIdx, fut, path) ==
    [pc |-> pc, s |-> s, off |-> off, on |-> on, sol |-> sol, depth |-> depth,
     edgeIdx |-> edgeIdx, fut |-> fut, path |-> path]

\* the frame of a call search(s, depth) that has not started
CallFrame(s, depth, path) ==
    Frame("start", s, EmptyState, EmptyState, NoSolution, depth, -1, -1, path)

\* ... && quickValidityCheck(c) && propagateConstraints(c), a being what
\* applyDecision(c, ...) returned
TryRest(a) ==
    IF ~a.ok THEN a
    ELSE IF ~quickValidityCheck(a.s) THEN [ok |-> FALSE, s |-> a.s]
    ELSE propagateConstraints(a.s)

\* a child that is propagated without the decision being applied
TryChildUndecided(s, edgeIdx, val) == TryRest([ok |-> TRUE, s |-> s])

\* applyDecision(c, e, val) && quickValidityCheck(c) && propagateConstraints(c)
\* on a copy c of s
TryChild(s, edgeIdx, val) == TryRest(applyDecision(s, edgeIdx, val))

\* the a-priori test of OFF at the top of the branch
CanOffFirst(s, edge) ==
    ~(\/ (At(s.pointDegree, edge.u) = 1 /\ At(s.pointUndecided, edge.u) = 1)
      \/ (At(s.pointDegree, edge.v) = 1 /\ At(s.pointUndecided, edge.v) = 1))

\* the a-priori test of ON at the top of the branch
CanOnFirst(s, edge) ==
    ~(At(s.pointDegree, edge.u) >= 2 \/ At(s.pointDegree, edge.v) >= 2)

\* the branch once offState is settled: off is [ok, s] of the OFF attempt
\* (ok false when OFF was not tried); onState is a copy of s when the OFF
\* child survives and is moved from s otherwise
ChildrenOn(s, edgeIdx, off, onTry, canOn0) ==
    [canOff |-> off.ok,
     canOn |-> canOn0 /\ onTry.ok,
     offState |-> off.s,
     onState |-> IF canOn0 THEN onTry.s ELSE EmptyState,
     s |-> IF canOn0 /\ ~off.ok THEN EmptyState ELSE s]

\* the branch after the OFF attempt
ChildrenOff(s, edgeIdx, off) ==
    ChildrenOn(s, edgeIdx, off, TryChild(s, edgeIdx, ON),
               CanOnFirst(s, At(edges, edgeIdx)))

\* a branch whose OFF attempt works on s itself instead of on a copy
buildChildrenInPlace(s, edgeIdx) ==
    IF CanOffFirst(s, At(edges, edgeIdx))
    THEN ChildrenOff(TryChild(s, edgeIdx, OFF).s, edgeIdx,
                     TryChild(s, edgeIdx, OFF))
    ELSE ChildrenOff(s, edgeIdx, [ok |-> FALSE, s |-> EmptyState])

\* search, from the a-priori tests to the ON attempt: the two children of
\* the branch on edgeIdx;
\* s in the result is the parent State as these lines leave it
buildChildren(s, edgeIdx) ==
    ChildrenOff(s, edgeIdx,
                IF CanOffFirst(s, At(edges, edgeIdx))
                THEN TryChild(s, edgeIdx, OFF)
                ELSE [ok |-> FALSE, s |-> EmptyState])

\* the four ifs that follow the children: return, one call, or the fork.
\* The frame of the caller stays under the frame of the call it makes.
Dispatch(f, edgeIdx, b) ==
    IF ~b.canOn /\ ~b.canOff THEN <<>>
    ELSE IF b.canOn /\ ~b.canOff
         THEN <<[f EXCEPT !.pc = "ret", !.s = b.s, !.edgeIdx = edgeIdx],
                CallFrame(b.onState, f.depth + 1, f.path)>>
    ELSE IF ~b.canOn /\ b.canOff
         THEN <<[f EXCEPT !.pc = "ret", !.s = b.s, !.edgeIdx = edgeIdx],
                CallFrame(b.offState, f.depth + 1, f.path)>>
    ELSE <<[f EXCEPT !.pc = "fork", !.s = b.s, !.off = b.offState,
                     !.on = b.onState, !.edgeIdx = edgeIdx]>>

\* finalCheckAndStore up to its block under solMutex; c is [valid, sol]
Leaf(f, s, c) ==
    IF c.valid /\ isCanonicalSolution(c.sol)
    THEN <<[f EXCEPT !.pc = "store", !.s = s, !.sol = c.sol]>>
    ELSE <<>>

\* a search that validates as soon as the ON edges pass the final check
SelectedEager(f, s, edgeIdx) ==
    IF edgeIdx = Len(edges) \/ finalCheck(s).valid THEN Leaf(f, s, finalCheck(s))
    ELSE Dispatch(f, edgeIdx, buildChildren(s, edgeIdx))

\* search after selectNextEdge returned edgeIdx
Selected(f, s, edgeIdx) ==
    IF edgeIdx = Len(edges) THEN Leaf(f, s, finalCheck(s))
    ELSE Dispatch(f, edgeIdx, buildChildren(s, edgeIdx))

\* search after propagateConstraints returned p
Propagated(f, p) ==
    IF ~p.ok THEN <<>> ELSE Selected(f, p.s, selectNextEdge(p.s))

\* search() from its second statement to its first access of shared data:
\* the frame that replaces the call's frame, or <<>> when the call returns
searchBody(f) ==
    IF isDefinitelyUnsolvable(f.s) THEN <<>>
    ELSE IF ~quickValidityCheck(f.s) THEN <<>>
    ELSE Propagated(f, propagateConstraints(f.s))

----------------------------------------------------------------------------
(* Threads.  Thread 0 calls run(); the others are the std::async workers.  *)
(* A worker with an empty stack has returned from its search() and has its *)
(* fetch_sub still to do; a frame at "join" whose fut is FutReady holds a  *)
(* future that is ready.                                                   *)

Tids == 0..(2 * MaxWorkers - 1)

FutReady == -2

Idle == [st |-> "idle", stack |-> <<>>]

Top(t) == threads[t].stack[Len(threads[t].stack)]

HasTop(t, pc) ==
    /\ threads[t].st = "run"
    /\ Len(threads[t].stack) > 0
    /\ Top(t).pc = pc

\* the stack of t with its top frame replaced by the frames fs (<<>>: return)
Replaced(t, fs) ==
    SubSeq(threads[t].stack, 1, Len(threads[t].stack) - 1) \o fs

\* the grids a run is given
Grid1x1 == [n |-> 1, m |-> 1, clues |-> <<-1>>]

Grid1x1Three == [n |-> 1, m |-> 1, clues |-> <<3>>]

Grid1x2 == [n |-> 1, m |-> 2, clues |-> <<-1, -1>>]

Grid1x2Left == [n |-> 1, m |-> 2, clues |-> <<-1, 1>>]

Grid1x2Right == [n |-> 1, m |-> 2, clues |-> <<1, -1>>]

Grid1x2Dead == [n |-> 1, m |-> 2, clues |-> <<3, 0>>]

Grid1x3 == [n |-> 1, m |-> 3, clues |-> <<-1, 2, -1>>]

Grid2x2Threes == [n |-> 2, m |-> 2, clues |-> <<3, 3, 3, 3>>]

Grid2x2Mixed == [n |-> 2, m |-> 2, clues |-> <<1, 3, 2, 3>>]

Grid2x2Zero == [n |-> 2, m |-> 2, clues |-> <<1, 3, 3, 0>>]

GridPlus == [n |-> 3, m |-> 3, clues |-> <<-1, 3, -1, 3, 0, 3, -1, 3, -1>>]

Grids ==
    { Grid1x1, Grid1x1Three, Grid1x2, Grid1x2Left, Grid1x2Right, Grid1x2Dead,
      Grid1x3, Grid2x2Threes, Grid2x2Mixed, Grid2x2Zero,
      GridPlus }

GridCentre ==
    [n |-> 3, m |-> 3, clues |-> <<-1, -1, -1, -1, 0, -1, -1, -1, -1>>]

\* a constructed Solver with its grid set to one of gs, before run(); ws
\* are the values thread::hardware_concurrency() may have given maxThreads
Constructed(gs, ws) ==
    /\ grid \in gs
    /\ charSigned \in BOOLEAN
    /\ findAll = FALSE
    /\ maxThreads \in ws
    /\ maxParallelDepth = 16
    /\ edges = <<>>
    /\ numPoints = 0
    /\ horizEdgeIndex = <<>>
    /\ vertEdgeIndex = <<>>
    /\ cellEdges = <<>>
    /\ pointEdges = <<>>
    /\ clueCells = <<>>
    /\ stopAfterFirst = FALSE
    /\ solutions = <<>>
    /\ solPaths = <<>>
    /\ solutionCount = 0
    /\ activeThreads = 0
    /\ threads = [t \in Tids |-> Idle]
    /\ phase = "new"

Init == Constructed(Grids, 1..MaxWorkers)

\* run(allSolutions, numThreads, cpuPercent) up to its call of search();
\* scaled is max(1, (int)(maxThreads * cpuPercent)) for the cpuPercent given;
\* g is what buildEdges() builds
RunBuilt(allSolutions, numThreads, scaled, g) ==
    /\ phase = "new"
    /\ edges' = g.edges
    /\ numPoints' = g.numPoints
    /\ horizEdgeIndex' = g.horizEdgeIndex
    /\ vertEdgeIndex' = g.vertEdgeIndex
    /\ cellEdges' = g.cellEdges
    /\ pointEdges' = g.pointEdges
    /\ clueCells' = g.clueCells
    /\ threads' = [threads EXCEPT ![0] =
          [st |-> "run", stack |-> <<CallFrame(initialState(grid, g), 0, <<>>)>>]]
    /\ findAll' = allSolutions
    /\ stopAfterFirst' = FALSE
    /\ solutionCount' = 0
    /\ maxParallelDepth' = calculateOptimalParallelDepth(grid)
    /\ maxThreads' = IF numThreads > 0 THEN numThreads ELSE scaled
    /\ phase' = "running"
    /\ UNCHANGED <<grid, charSigned, solutions, solPaths, activeThreads>>

Run(allSolutions, numThreads, scaled) ==
    RunBuilt(allSolutions, numThreads, scaled, buildEdges(grid))

\* a call that does not poll the flag
EnterWithoutPoll(t) ==
    /\ HasTop(t, "start")
    /\ threads' = [threads EXCEPT ![t].stack = Replaced(t, searchBody(Top(t)))]
    /\ UNCHANGED <<confVars, graphVars, sharedVars, solPaths, phase>>

\* search(): the flag poll at its top, then the call up to its first access
\* of shared data
Enter(t) ==
    /\ HasTop(t, "start")
    /\ threads' = [threads EXCEPT ![t].stack =
          IF ~findAll /\ stopAfterFirst THEN Replaced(t, <<>>)
          ELSE Replaced(t, searchBody(Top(t)))]
    /\ UNCHANGED <<confVars, graphVars, sharedVars, solPaths, phase>>

\* finalCheckAndStore(): the block under solMutex, and the return
Store(t) ==
    /\ HasTop(t, "store")
    /\ solutionCount' = solutionCount + 1
    /\ solutions' = Append(solutions, Top(t).sol)
    /\ solPaths' = Append(solPaths, Top(t).path)
    /\ stopAfterFirst' = IF ~findAll THEN TRUE ELSE stopAfterFirst
    /\ threads' = [threads EXCEPT ![t].stack = Replaced(t, <<>>)]
    /\ UNCHANGED <<confVars, graphVars, activeThreads, phase>>

\* a fork that tests the worker count only
ForkAnyDepth(t) ==
    /\ HasTop(t, "fork")
    /\ LET f == Top(t)
           doParallel == activeThreads < maxThreads
       IN threads' = [threads EXCEPT ![t].stack =
             IF doParallel THEN Replaced(t, <<[f EXCEPT !.pc = "spawn"]>>)
             ELSE Replaced(t, <<[f EXCEPT !.pc = "afterOff", !.off = EmptyState],
                                CallFrame(f.off, f.depth + 1, Append(f.path, OFF))>>)]
    /\ UNCHANGED <<confVars, graphVars, sharedVars, solPaths, phase>>

\* search(): the evaluation of doParallel; when it is false, the call of
\* search() on the OFF child
Fork(t) ==
    /\ HasTop(t, "fork")
    /\ LET f == Top(t)
           doParallel == f.depth < maxParallelDepth /\ activeThreads < maxThreads
       IN threads' = [threads EXCEPT ![t].stack =
             IF doParallel THEN Replaced(t, <<[f EXCEPT !.pc = "spawn"]>>)
             ELSE Replaced(t, <<[f EXCEPT !.pc = "afterOff", !.off = EmptyState],
                                CallFrame(f.off, f.depth + 1, Append(f.path, OFF))>>)]
    /\ UNCHANGED <<confVars, graphVars, sharedVars, solPaths, phase>>

\* a fork that gives the worker the ON child, which the caller searches too
SpawnSameChild(t) ==
    /\ HasTop(t, "spawn")
    /\ \E w \in Tids :
          /\ threads[w].st = "idle"
          /\ \A x \in Tids : threads[x].st = "idle" => w <= x
          /\ LET f == Top(t)
             IN threads' = [threads EXCEPT
                   ![w] = [st |-> "run",
                           stack |-> <<CallFrame(f.on, f.depth + 1,
                                                 Append(f.path, OFF))>>],
                   ![t].stack = Replaced(t,
                        <<[f EXCEPT !.pc = "join", !.fut = w,
                                    !.off = EmptyState, !.on = EmptyState],
                          CallFrame(f.on, f.depth + 1, Append(f.path, ON))>>)]
    /\ activeThreads' = activeThreads + 1
    /\ UNCHANGED <<confVars, graphVars, stopAfterFirst, solutions,
                   solutionCount, solPaths, phase>>

\* search(): fetch_add, the launch of the worker on the OFF child, and the
\* call of search() on the ON child
Spawn(t) ==
    /\ HasTop(t, "spawn")
    /\ \E w \in Tids :
          /\ threads[w].st = "idle"
          /\ \A x \in Tids : threads[x].st = "idle" => w <= x
          /\ LET f == Top(t)
             IN threads' = [threads EXCEPT
                   ![w] = [st |-> "run",
                           stack |-> <<CallFrame(f.off, f.depth + 1,
                                                 Append(f.path, OFF))>>],
                   ![t].stack = Replaced(t,
                        <<[f EXCEPT !.pc = "join", !.fut = w,
                                    !.off = EmptyState, !.on = EmptyState],
                          CallFrame(f.on, f.depth + 1, Append(f.path, ON))>>)]
    /\ activeThreads' = activeThreads + 1
    /\ UNCHANGED <<confVars, graphVars, stopAfterFirst, solutions,
                   solutionCount, solPaths, phase>>

\* a sequential branch that calls the ON child without polling the flag
AfterOffWithoutPoll(t) ==
    /\ HasTop(t, "afterOff")
    /\ threads' = [threads EXCEPT ![t].stack =
          Replaced(t, <<[Top(t) EXCEPT !.pc = "ret", !.on = EmptyState],
                        CallFrame(Top(t).on, Top(t).depth + 1,
                                  Append(Top(t).path, ON))>>)]
    /\ UNCHANGED <<confVars, graphVars, sharedVars, solPaths, phase>>

\* search(): after the OFF child returned, the flag poll and the call of
\* search() on the ON child
AfterOff(t) ==
    /\ HasTop(t, "afterOff")
    /\ LET f == Top(t)
       IN threads' = [threads EXCEPT ![t].stack =
             IF ~findAll /\ stopAfterFirst THEN Replaced(t, <<>>)
             ELSE Replaced(t, <<[f EXCEPT !.pc = "ret", !.on = EmptyState],
                                CallFrame(f.on, f.depth + 1, Append(f.path, ON))>>)]
    /\ UNCHANGED <<confVars, graphVars, sharedVars, solPaths, phase>>

\* search(): the return that follows its last call of search()
Return(t) ==
    /\ HasTop(t, "ret")
    /\ threads' = [threads EXCEPT ![t].stack = Replaced(t, <<>>)]
    /\ UNCHANGED <<confVars, graphVars, sharedVars, solPaths, phase>>

\* the worker's lambda after its search() returned: fetch_sub, and the
\* future becomes ready
WorkerExit(w) ==
    /\ w # 0
    /\ threads[w].st = "run"
    /\ Len(threads[w].stack) = 0
    /\ activeThreads' = activeThreads - 1
    /\ threads' = [t \in Tids |->
          IF t = w THEN Idle
          ELSE [threads[t] EXCEPT !.stack =
                  [i \in 1..Len(threads[t].stack) |->
                      IF threads[t].stack[i].pc = "join"
                         /\ threads[t].stack[i].fut = w
                      THEN [threads[t].stack[i] EXCEPT !.fut = FutReady]
                      ELSE threads[t].stack[i]]]]
    /\ UNCHANGED <<confVars, graphVars, stopAfterFirst, solutions,
                   solutionCount, solPaths, phase>>

\* a call that returns without waiting for its worker
JoinWithoutWait(t) ==
    /\ HasTop(t, "join")
    /\ threads' = [threads EXCEPT ![t].stack = Replaced(t, <<>>)]
    /\ UNCHANGED <<confVars, graphVars, sharedVars, solPaths, phase>>

\* search(): fut.get() returns, and the call returns
Join(t) ==
    /\ HasTop(t, "join")
    /\ Top(t).fut = FutReady
    /\ threads' = [threads EXCEPT ![t].stack = Replaced(t, <<>>)]
    /\ UNCHANGED <<confVars, graphVars, sharedVars, solPaths, phase>>

\* run() returns to its caller
RunReturn ==
    /\ phase = "running"
    /\ threads[0].st = "run"
    /\ Len(threads[0].stack) = 0
    /\ phase' = "done"
    /\ threads' = [threads EXCEPT ![0] = Idle]
    /\ UNCHANGED <<confVars, graphVars, sharedVars, solPaths>>

Next ==
    \/ \E a \in BOOLEAN, k \in 0..MaxWorkers, c \in 1..MaxWorkers :
          c <= maxThreads /\ Run(a, k, c)
    \/ \E t \in Tids : Enter(t)
    \/ \E t \in Tids : Store(t)
    \/ \E t \in Tids : Fork(t)
    \/ \E t \in Tids : Spawn(t)
    \/ \E t \in Tids : AfterOff(t)
    \/ \E t \in Tids : Return(t)
    \/ \E t \in Tids : WorkerExit(t)
    \/ \E t \in Tids : Join(t)
    \/ RunReturn

Spec == Init /\ [][Next]_vars

\* find-first solves, with the worker count 1, of the 3x3 grid whose only
\* clue is the centre 0
InitCentre == Constructed({GridCentre}, {1})

NextCentre ==
    \/ \E k \in 0..1 : Run(FALSE, k, 1)
    \/ \E t \in Tids : Enter(t)
    \/ \E t \in Tids : Store(t)
    \/ \E t \in Tids : Fork(t)
    \/ \E t \in Tids : Spawn(t)
    \/ \E t \in Tids : AfterOff(t)
    \/ \E t \in Tids : Return(t)
    \/ \E t \in Tids : WorkerExit(t)
    \/ \E t \in Tids : Join(t)
    \/ RunReturn

SpecCentre == InitCentre /\ [][NextCentre]_vars

----------------------------------------------------------------------------
(* The State operations called one at a time, as a caller of the Solver's  *)
(* member functions (a unit test) calls them: after run() has built the    *)
(* graph, any sequence of applyDecision, propagateConstraints and          *)
(* selectNextEdge calls on one State.  The single frame of thread 0 holds  *)
(* the locals of the caller: the State before the last call (before), the  *)
(* State after it (s), the arguments and what the call returned.  A State  *)
(* on which a call returned false is not used again.                       *)

CallRecord(pc, before, s, edgeIdx, val, ret) ==
    [pc |-> pc, before |-> before, s |-> s, edgeIdx |-> edgeIdx, val |-> val,
     ret |-> ret]

\* the caller holds a State it may use
Live(f) == f.pc \in {"start", "applied", "propagated", "selected"}

\* the caller is between two calls, with a State it may use
Calling ==
    /\ threads[0].st = "run"
    /\ Len(threads[0].stack) > 0
    /\ Live(Top(0))

\* bool ok = applyDecision(s, edgeIdx, val); r is what the call gives
Applied(f, edgeIdx, val, r) ==
    CallRecord(IF r.ok THEN "applied" ELSE "failed", f.s, r.s, edgeIdx, val, r.ok)

Decide(edgeIdx, val) ==
    /\ Calling
    /\ threads' = [threads EXCEPT ![0].stack =
          <<Applied(Top(0), edgeIdx, val, applyDecision(Top(0).s, edgeIdx, val))>>]
    /\ UNCHANGED <<confVars, graphVars, sharedVars, solPaths, phase>>

\* bool ok = propagateConstraints(s); r is what the call gives
PropagatedRecord(f, r) ==
    CallRecord(IF r.ok THEN "propagated" ELSE "contradiction", f.s, r.s, -1, 0,
               r.ok)

Propagate ==
    /\ Calling
    /\ threads' = [threads EXCEPT ![0].stack =
          <<PropagatedRecord(Top(0), propagateConstraints(Top(0).s))>>]
    /\ UNCHANGED <<confVars, graphVars, sharedVars, solPaths, phase>>

\* int e = selectNextEdge(s); s is passed by const reference
Select ==
    /\ Calling
    /\ threads' = [threads EXCEPT ![0].stack =
          <<CallRecord("selected", Top(0).s, Top(0).s, -1, 0,
                       selectNextEdge(Top(0).s))>>]
    /\ UNCHANGED <<confVars, graphVars, sharedVars, solPaths, phase>>

UnitGrids == {Grid1x1, Grid1x1Three, Grid1x2, Grid1x2Left, Grid1x2Dead}

InitUnit == Constructed(UnitGrids, {1})

NextUnit ==
    \/ Run(FALSE, 0, 1)
    \/ \E e \in 0..(Len(edges) - 1), val \in {OFF, ON} : Decide(e, val)
    \/ Propagate
    \/ Select

SpecUnit == InitUnit /\ [][NextUnit]_vars

----------------------------------------------------------------------------
(* propagateConstraints run one worklist item at a time, on any State that  *)
(* applyDecision calls and earlier runs can give.  The single frame of     *)
(* thread 0 holds the State the run was called on (before), the locals of  *)
(* the run as they are now (q) and as they were one item earlier (prev),   *)
(* and the number of loop steps the run has made (steps), which is history *)
(* only.                                                                   *)

RunRecord(before, prev, q, steps) ==
    [pc |-> "propagating", before |-> before, prev |-> prev, q |-> q,
     steps |-> steps]

\* the run is between two iterations of its loops, or at its return
Propagating ==
    /\ threads[0].st = "run"
    /\ Len(threads[0].stack) > 0
    /\ Top(0).pc = "propagating"

\* the call: the clue pre-check and the filling of the two worklists
PropagateBegin ==
    /\ Calling
    /\ threads' = [threads EXCEPT ![0].stack =
          <<RunRecord(Top(0).s, PropStart(Top(0).s), PropStart(Top(0).s), 0)>>]
    /\ UNCHANGED <<confVars, graphVars, sharedVars, solPaths, phase>>

\* one iteration of an inner while loop, or one test of a loop condition
PropagateStep ==
    /\ Propagating
    /\ Top(0).q.result = "run"
    /\ threads' = [threads EXCEPT ![0].stack =
          <<RunRecord(Top(0).before, Top(0).q, PropStep(Top(0).q),
                      Top(0).steps + 1)>>]
    /\ UNCHANGED <<confVars, graphVars, sharedVars, solPaths, phase>>

\* the return of the run to its caller
PropagateEnd ==
    /\ Propagating
    /\ Top(0).q.result # "run"
    /\ threads' = [threads EXCEPT ![0].stack =
          <<PropagatedRecord([s |-> Top(0).before], PropResult(Top(0).q))>>]
    /\ UNCHANGED <<confVars, graphVars, sharedVars, solPaths, phase>>

PropGrids == {Grid1x1Three, Grid1x2Left, Grid1x2Dead}

InitProp == Constructed(PropGrids, {1})

NextProp ==
    \/ Run(FALSE, 0, 1)
    \/ \E e \in 0..(Len(edges) - 1), val \in {OFF, ON} : Decide(e, val)
    \/ PropagateBegin
    \/ PropagateStep
    \/ PropagateEnd

SpecProp == InitProp /\ [][NextProp]_vars

----------------------------------------------------------------------------

(* What a Slitherlink solution is, stated on the edge table alone *)

EdgeIds == 0..(Len(edges) - 1)

PointIds == 0..(numPoints - 1)

CellIds == 0..(Len(grid.clues) - 1)

OffChar == ToChar(-1)

OnSet(es) == {e \in EdgeIds : At(es, e) = 1}

EdgesOfCell(c) == {e \in EdgeIds : At(edges, e).cellA = c \/ At(edges, e).cellB = c}

EdgesOfPoint(v) == {e \in EdgeIds : At(edges, e).u = v \/ At(edges, e).v = v}

CluesMet(es) ==
    \A c \in CellIds :
       At(grid.clues, c) >= 0
          => Cardinality(EdgesOfCell(c) \cap OnSet(es)) = At(grid.clues, c)

DegreesOk(es) ==
    \A v \in PointIds : Cardinality(EdgesOfPoint(v) \cap OnSet(es)) \in {0, 2}

\* the points joined to a point of R by ON edges, R included
RECURSIVE Reach(_, _)
Reach(on, R) ==
    LET R1 == R \cup {At(edges, e).u : e \in {x \in on : At(edges, x).v \in R}}
                \cup {At(edges, e).v : e \in {x \in on : At(edges, x).u \in R}}
    IN IF R1 = R THEN R ELSE Reach(on, R1)

OneComponent(on) ==
    /\ on # {}
    /\ \A e \in on :
          At(edges, e).u \in Reach(on, {At(edges, CHOOSE x \in on : TRUE).u})

\* clue, vertex-degree and single-cycle conditions
ValidLoop(es) == CluesMet(es) /\ DegreesOk(es) /\ OneComponent(OnSet(es))

\* every complete assignment of the built graph
Assignments == [1..Len(edges) -> {1, OffChar}]

Recorded == {solutions[i].edgeState : i \in 1..Len(solutions)}

AllFrames ==
    UNION {{threads[t].stack[i] : i \in 1..Len(threads[t].stack)} : t \in Tids}

\* OFF-before-ON order of two paths
PathLess(p, r) ==
    \E i \in 1..Min(Len(p), Len(r)) :
       /\ p[i] = OFF
       /\ r[i] = ON
       /\ \A j \in 1..(i - 1) : p[j] = r[j]

\* The first solution, in depth-first OFF-before-ON order, that a find-all
\* solve records from the call search(s): the steps of search() taken one
\* call after the other, a leaf being recorded when the validator accepts it
\* and the find-all filter keeps it.  NoSolution when there is none.
RECURSIVE DfsFirst(_)

DfsSecond(first, onState) ==
    IF first # NoSolution THEN first ELSE DfsFirst(onState)

DfsChildren(b) ==
    IF ~b.canOn /\ ~b.canOff THEN NoSolution
    ELSE IF b.canOn /\ ~b.canOff THEN DfsFirst(b.onState)
    ELSE IF ~b.canOn /\ b.canOff THEN DfsFirst(b.offState)
    ELSE DfsSecond(DfsFirst(b.offState), b.onState)

DfsLeaf(c) ==
    IF c.valid /\ ReflectionNotSmaller(c.sol) THEN c.sol ELSE NoSolution

DfsSelected(s, edgeIdx) ==
    IF edgeIdx = Len(edges) THEN DfsLeaf(finalCheck(s))
    ELSE DfsChildren(buildChildren(s, edgeIdx))

DfsPropagated(p) ==
    IF ~p.ok THEN NoSolution ELSE DfsSelected(p.s, selectNextEdge(p.s))

DfsFirst(s) ==
    IF isDefinitelyUnsolvable(s) THEN NoSolution
    ELSE IF ~quickValidityCheck(s) THEN NoSolution
    ELSE DfsPropagated(propagateConstraints(s))

----------------------------------------------------------------------------
(* Claims *)

\* C1: every recorded solution meets its clues, has vertex degrees 0 or 2
\* and its ON edges are one non-empty simple cycle
C1_RecordedSolutionsValid ==
    \A i \in 1..Len(solutions) : ValidLoop(solutions[i].edgeState)

\* C1 witness: a find-all run has recorded two solutions
C1_Witness == findAll /\ Len(solutions) >= 2

\* C2: when a find-all solve of a grid of at most four cells has returned,
\* the recorded solutions are exactly the valid assignments, each once
C2_FindAllComplete ==
    (phase = "done" /\ findAll /\ grid.n * grid.m <= 4)
       => /\ Recorded = {es \in Assignments : ValidLoop(es)}
          /\ Len(solutions) = Cardinality({es \in Assignments : ValidLoop(es)})

\* C3: when a find-first solve has returned with nothing recorded, no
\* assignment of the grid is a valid loop
C3_FindFirstNoneMeansNone ==
    (phase = "done" /\ ~findAll /\ Len(solutions) = 0)
       => ~(\E es \in Assignments : ValidLoop(es))

\* C3 witness: a find-first solve returned with nothing recorded
C3_Witness == phase = "done" /\ ~findAll /\ Len(solutions) = 0

\* C4: under find-first the collector never holds more than one solution
C4_FindFirstAtMostOne == ~findAll => Len(solutions) <= 1

\* C5: with the worker count 1 the solutions are recorded in depth-first
\* OFF-before-ON order
C5_OneWorkerDfsOrder ==
    (phase # "new" /\ maxThreads = 1)
       => \A i \in 1..Len(solPaths) : \A j \in (i + 1)..Len(solPaths) :
             PathLess(solPaths[i], solPaths[j])

\* C7: a state that left propagateConstraints with success, and that the
\* two checks search() makes before propagating let through, is left
\* unchanged, with success, by the second run search() makes on it
C7_PropagationIdempotent ==
    \A f \in AllFrames :
       ( /\ f.pc = "start"
         /\ f.depth > 0
         /\ ~isDefinitelyUnsolvable(f.s)
         /\ quickValidityCheck(f.s) )
          => propagateConstraints(f.s) = [ok |-> TRUE, s |-> f.s]

\* C6: on the 3x3 grid whose only clue is the centre 0, the solution a
\* find-first solve records is the first solution, in depth-first
\* OFF-before-ON order, of a find-all solve of the grid
C6_FirstIsDfsFirstOfAll ==
    (phase = "done" /\ ~findAll /\ grid = GridCentre /\ Len(solutions) >= 1)
       => solutions[1].edgeState
             = DfsFirst(initialState(grid, buildEdges(grid))).edgeState

\* the counters of s are those of its edgeState
CountersAgree(s) ==
    /\ \A v \in PointIds :
          /\ At(s.pointDegree, v)
                = Cardinality({e \in EdgesOfPoint(v) : At(s.edgeState, e) = 1})
          /\ At(s.pointUndecided, v)
                = Cardinality({e \in EdgesOfPoint(v) : At(s.edgeState, e) = 0})
    /\ \A c \in CellIds :
          /\ At(s.cellEdgeCount, c)
                = Cardinality({e \in EdgesOfCell(c) : At(s.edgeState, e) = 1})
          /\ At(s.cellUndecided, c)
                = Cardinality({e \in EdgesOfCell(c) : At(s.edgeState, e) = 0})

\* C8: the State a call of search() still holds after it built its children
\* is the state it branched on: the branch edge is undecided in it, its
\* counters are those of its own decisions, and each child is the result of
\* the decision and the propagation on a copy of it
C8_ParentUnchangedByChildren ==
    \A f \in AllFrames :
       (f.pc \in {"fork", "spawn", "afterOff", "join", "ret"} /\ f.s # EmptyState)
          => /\ At(f.s.edgeState, f.edgeIdx) = 0
             /\ CountersAgree(f.s)
             /\ f.pc = "fork"
                   => /\ f.off = TryChild(f.s, f.edgeIdx, OFF).s
                      /\ f.on = TryChild(f.s, f.edgeIdx, ON).s
                      /\ At(f.off.edgeState, f.edgeIdx) = OffChar
                      /\ At(f.on.edgeState, f.edgeIdx) = 1

\* C8 witness: a call holds its state and both children built from copies
\* of it, each child changed by its decision and by its propagation
C8_Witness ==
    \E f \in AllFrames :
       /\ f.pc = "fork"
       /\ Cardinality({e \in EdgeIds : At(f.off.edgeState, e) # At(f.s.edgeState, e)}) >= 2
       /\ Cardinality({e \in EdgeIds : At(f.on.edgeState, e) # At(f.s.edgeState, e)}) >= 2

\* C9: a find-all solve of the 1x1 grid without clue records exactly one
\* solution, with its four edges ON and a cycle of five points: the four
\* corners and the start again
C9_SingleCellLoop ==
    (grid = Grid1x1 /\ findAll /\ phase = "done")
       => /\ Len(solutions) = 1
          /\ solutionCount = 1
          /\ solutions[1].edgeState = <<1, 1, 1, 1>>
          /\ Len(solutions[1].cyclePoints) = 5
          /\ solutions[1].cyclePoints[5] = solutions[1].cyclePoints[1]
          /\ {solutions[1].cyclePoints[i] : i \in 1..4}
                = {<<0, 0>>, <<0, 1>>, <<1, 0>>, <<1, 1>>}

\* C9 witness: the find-all solve of the 1x1 grid without clue has returned
\* with a solution recorded
C9_Witness ==
    grid = Grid1x1 /\ findAll /\ phase = "done" /\ Len(solutions) = 1

\* the centre cell's edges are OFF and each 3-cell's other three are ON
PlusForced(s) ==
    /\ \A e \in EdgesOfCell(4) : At(s.edgeState, e) = OffChar
    /\ \A c \in {1, 3, 5, 7} :
          \A e \in EdgesOfCell(c) \ EdgesOfCell(4) : At(s.edgeState, e) = 1

\* C10: on the 3x3 grid with the centre 0 and a 3 on each of its four
\* neighbours, one run of propagateConstraints on the initial state succeeds
\* and leaves the four edges of the centre cell OFF and, of each 3-cell, the
\* three edges it does not share with the centre ON; this is the state the
\* first call of search() holds before any branch
C10_ZeroAmongThrees ==
    (grid = GridPlus /\ phase # "new")
       => /\ propagateConstraints(initialState(grid, buildEdges(grid))).ok
          /\ PlusForced(propagateConstraints(initialState(grid, buildEdges(grid))).s)
          /\ \A f \in AllFrames :
                (f.depth = 0 /\ f.pc # "start" /\ f.s # EmptyState)
                   => PlusForced(f.s)

\* C10 witness: the first call on that grid holds its propagated state
C10_Witness ==
    \E f \in AllFrames :
       /\ grid = GridPlus
       /\ f.depth = 0
       /\ f.pc # "start"
       /\ f.s # EmptyState
       /\ PlusForced(f.s)

\* C11: the number of running spawned workers, activeThreads, never exceeds
\* the configured maximum worker count
C11_WorkersWithinMaximum ==
    phase = "running" => activeThreads <= maxThreads

\* the states propagateConstraints returned with success: the state a call
\* of search() holds once its own propagation succeeded, and the state of a
\* child, which the parent propagated, before the child's call starts
AfterPropagation ==
    {f.s : f \in {g \in AllFrames :
                     \/ (g.pc = "start" /\ g.depth > 0)
                     \/ (g.pc # "start" /\ g.s # EmptyState)}}

\* C12: after a successful propagation no cell rule is firable: no clued
\* cell with an undecided edge has its ON count equal to the clue, or its ON
\* count plus its undecided count equal to the clue
C12_NoCellRuleFirable ==
    \A s \in AfterPropagation : \A c \in CellIds :
       (At(grid.clues, c) >= 0 /\ At(s.cellUndecided, c) > 0)
          => /\ At(s.cellEdgeCount, c) # At(grid.clues, c)
             /\ At(s.cellEdgeCount, c) + At(s.cellUndecided, c) # At(grid.clues, c)

\* C13: after a successful propagation no vertex rule is firable: no vertex
\* has ON-degree 2 and an undecided edge, or ON-degree 1 and exactly one
\* undecided edge
C13_NoVertexRuleFirable ==
    \A s \in AfterPropagation : \A v \in PointIds :
       /\ ~(At(s.pointDegree, v) = 2 /\ At(s.pointUndecided, v) > 0)
       /\ ~(At(s.pointDegree, v) = 1 /\ At(s.pointUndecided, v) = 1)

\* C14: after a successful propagation every clued cell has its ON count at
\* most its clue and its ON count plus its undecided count at least its clue
C14_CluesReachable ==
    \A s \in AfterPropagation : \A c \in CellIds :
       At(grid.clues, c) >= 0
          => /\ At(s.cellEdgeCount, c) <= At(grid.clues, c)
             /\ At(grid.clues, c) <= At(s.cellEdgeCount, c) + At(s.cellUndecided, c)

\* C15: after a successful propagation no vertex has ON-degree above 2, or
\* ON-degree 1 and no undecided edge
C15_NoDeadVertex ==
    \A s \in AfterPropagation : \A v \in PointIds :
       /\ At(s.pointDegree, v) <= 2
       /\ ~(At(s.pointDegree, v) = 1 /\ At(s.pointUndecided, v) = 0)

\* the record of the last call, when the caller has made one
LastCall == {f \in AllFrames : f.pc # "start"}

\* the ON and UNDECIDED edges of s at point v and around cell c
OnAtPoint(s, v) == Cardinality({e \in EdgesOfPoint(v) : At(s.edgeState, e) = 1})

OnAtCell(s, c) == Cardinality({e \in EdgesOfCell(c) : At(s.edgeState, e) = 1})

\* C16: in the initial state and in every state reached from it by
\* successful applyDecision calls and successful propagation runs, the four
\* counters of every vertex and cell are the numbers of UNDECIDED and ON
\* edges incident to it, and every vertex has ON-degree at most 2
C16_CountersAgree ==
    \A f \in AllFrames :
       Live(f) => /\ CountersAgree(f.s)
                  /\ \A v \in PointIds : At(f.s.pointDegree, v) <= 2

\* C16 witness: a successful propagation run that turned an edge OFF and an
\* edge ON on a state that had an ON edge
C16_Witness ==
    \E f \in AllFrames :
       /\ f.pc = "propagated"
       /\ \E e \in EdgeIds : At(f.before.edgeState, e) = 1
       /\ \E e \in EdgeIds :
             At(f.before.edgeState, e) = 0 /\ At(f.s.edgeState, e) = OffChar
       /\ \E e \in EdgeIds :
             At(f.before.edgeState, e) = 0 /\ At(f.s.edgeState, e) = 1

\* C17: applyDecision on a decided edge returns true when the value is the
\* edge's decision and false when it is the opposite one, and leaves every
\* edge decision and every counter as it was
C17_DecidedEdgeNoOp ==
    \A f \in LastCall :
       (f.pc \in {"applied", "failed"} /\ At(f.before.edgeState, f.edgeIdx) # 0)
          => /\ f.s = f.before
             /\ f.ret = (At(f.before.edgeState, f.edgeIdx) = ToChar(f.val))

\* C18: applyDecision on an undecided edge returns false exactly when the
\* value is ON and an endpoint then has more than 2 ON edges or a clued
\* adjacent cell more ON edges than its clue
C18_FailsExactlyOnViolation ==
    \A f \in LastCall :
       (f.pc \in {"applied", "failed"} /\ At(f.before.edgeState, f.edgeIdx) = 0)
          => (f.ret = FALSE)
                = ( /\ f.val = ON
                    /\ \/ \E v \in {At(edges, f.edgeIdx).u, At(edges, f.edgeIdx).v} :
                             OnAtPoint(f.before, v) + 1 > 2
                       \/ \E c \in {At(edges, f.edgeIdx).cellA,
                                    At(edges, f.edgeIdx).cellB} \cap CellIds :
                             /\ At(grid.clues, c) >= 0
                             /\ OnAtCell(f.before, c) + 1 > At(grid.clues, c) )

\* C18 witness: applyDecision has refused an ON decision on an undecided
\* edge beside a clued cell whose endpoints had ON-degree below 2
C18_Witness ==
    \E f \in LastCall :
       /\ f.pc = "failed"
       /\ f.val = ON
       /\ At(f.before.edgeState, f.edgeIdx) = 0
       /\ OnAtPoint(f.before, At(edges, f.edgeIdx).u) < 2
       /\ OnAtPoint(f.before, At(edges, f.edgeIdx).v) < 2

\* C19: selectNextEdge returns an UNDECIDED edge when there is one and the
\* edge count exactly when there is none, and the State is as it was
C19_SelectTotal ==
    \A f \in LastCall :
       f.pc = "selected"
          => /\ f.s = f.before
             /\ IF \E e \in EdgeIds : At(f.before.edgeState, e) = 0
                THEN f.ret \in EdgeIds /\ At(f.before.edgeState, f.ret) = 0
                ELSE f.ret = Len(edges)

\* C19 witness: selectNextEdge returned an edge that is not the first
\* undecided one
C19_Witness ==
    \E f \in LastCall :
       /\ f.pc = "selected"
       /\ f.ret \in EdgeIds
       /\ \E e \in 0..(f.ret - 1) : At(f.before.edgeState, e) = 0

\* branching factor 1: an endpoint with ON-degree 1 and one undecided edge,
\* or an endpoint with ON-degree at least 2
FactorOne(s, e) ==
    \E v \in {At(edges, e).u, At(edges, e).v} :
       \/ (OnAtPoint(s, v) = 1
              /\ Cardinality({x \in EdgesOfPoint(v) : At(s.edgeState, x) = 0}) = 1)
       \/ OnAtPoint(s, v) >= 2

\* C20: when some undecided edge has branching factor 1, selectNextEdge
\* returns an undecided edge of branching factor 1
C20_ForcedEdgeFirst ==
    \A f \in LastCall :
       ( /\ f.pc = "selected"
         /\ \E e \in EdgeIds : At(f.before.edgeState, e) = 0 /\ FactorOne(f.before, e) )
          => /\ f.ret \in EdgeIds
             /\ At(f.before.edgeState, f.ret) = 0
             /\ FactorOne(f.before, f.ret)

\* C20 witness: selectNextEdge returned a factor-1 edge that comes after an
\* undecided edge of factor 2
C20_Witness ==
    \E f \in LastCall :
       /\ f.pc = "selected"
       /\ f.ret \in EdgeIds
       /\ FactorOne(f.before, f.ret)
       /\ \E e \in 0..(f.ret - 1) :
             At(f.before.edgeState, e) = 0 /\ ~FactorOne(f.before, e)

\* the undecided edges of s
Undecided(s) == {e \in EdgeIds : At(s.edgeState, e) = 0}

\* C21: when every undecided edge has branching factor 2, selectNextEdge
\* returns an undecided edge of maximal score, and of the edges of that
\* score the one with the lowest id
C21_BestScoreLowestId ==
    \A f \in LastCall :
       ( /\ f.pc = "selected"
         /\ Undecided(f.before) # {}
         /\ \A e \in Undecided(f.before) : ~FactorOne(f.before, e) )
          => /\ f.ret \in Undecided(f.before)
             /\ \A e \in Undecided(f.before) :
                   /\ edgeScore(f.before, e) <= edgeScore(f.before, f.ret)
                   /\ edgeScore(f.before, e) = edgeScore(f.before, f.ret)
                         => f.ret <= e

\* C21 witness: with every undecided edge of factor 2, selectNextEdge
\* returned an edge that follows an undecided edge of lower score and
\* precedes an undecided edge of its own score
C21_Witness ==
    \E f \in LastCall :
       /\ f.pc = "selected"
       /\ f.ret \in Undecided(f.before)
       /\ \A e \in Undecided(f.before) : ~FactorOne(f.before, e)
       /\ \E e \in Undecided(f.before) :
             e < f.ret /\ edgeScore(f.before, e) < edgeScore(f.before, f.ret)
       /\ \E e \in Undecided(f.before) :
             e > f.ret /\ edgeScore(f.before, e) = edgeScore(f.before, f.ret)

\* the lattice point with coordinates rc = (row, col)
PointOf(rc) == rc[1] * (grid.m + 1) + rc[2]

\* the steps k of the cycle cp that go along edge e: cp[k], cp[k + 1] are
\* the two endpoints of e
StepsAlong(cp, e) ==
    {k \in 1..(Len(cp) - 1) :
        {PointOf(cp[k]), PointOf(cp[k + 1])} = {At(edges, e).u, At(edges, e).v}}

\* C22: the cycle of every recorded solution starts and ends at the same
\* lattice point, has one point more than the solution has ON edges, each
\* of its steps goes along an ON edge, and every ON edge is gone along by
\* exactly one step
C22_CycleTraversesLoop ==
    \A i \in 1..Len(solutions) :
       /\ Len(solutions[i].cyclePoints)
             = Cardinality(OnSet(solutions[i].edgeState)) + 1
       /\ solutions[i].cyclePoints[1]
             = solutions[i].cyclePoints[Len(solutions[i].cyclePoints)]
       /\ \A k \in 1..(Len(solutions[i].cyclePoints) - 1) :
             \E e \in OnSet(solutions[i].edgeState) :
                k \in StepsAlong(solutions[i].cyclePoints, e)
       /\ \A e \in OnSet(solutions[i].edgeState) :
             Cardinality(StepsAlong(solutions[i].cyclePoints, e)) = 1

\* C22 witness: a recorded solution whose loop has at least six ON edges on
\* a grid with more columns than rows
C22_Witness ==
    \E i \in 1..Len(solutions) :
       /\ grid.m > grid.n
       /\ Cardinality(OnSet(solutions[i].edgeState)) >= 6
       /\ Len(solutions[i].cyclePoints) >= 7

\* the test the branch is meant to make before it explores its children
\* concurrently: depth below the limit and more than 10 undecided edges
LargeSubtree(f) ==
    f.depth < maxParallelDepth /\ Cardinality(Undecided(f.s)) > 10

\* C23: a call of search() whose two children survive explores them
\* concurrently (it launches a worker) only when its depth is below the
\* parallelisation depth limit and its state has more than 10 undecided
\* edges, and explores them one after the other on its own thread otherwise
C23_ConcurrentOnlyWhenLarge ==
    \A f \in AllFrames :
       /\ f.pc \in {"spawn", "join"} => LargeSubtree(f)
       /\ f.pc = "afterOff" => ~LargeSubtree(f)

\* the workers whose lambda has not finished
RunningWorkers == {w \in Tids \ {0} : threads[w].st = "run"}

\* every running worker is awaited by the call that spawned it, and once
\* run() has returned no thread runs and the worker counter is 0
WorkersAwaited ==
    /\ \A w \in RunningWorkers : \E f \in AllFrames : f.pc = "join" /\ f.fut = w
    /\ phase = "done" => /\ RunningWorkers = {}
                         /\ AllFrames = {}
                         /\ activeThreads = 0

\* C24: a call of search() returns only after the worker it spawned has
\* finished; when run() has returned no worker is running, activeThreads is
\* 0, and no solution is recorded from then on
C24_ForkJoin ==
    /\ []WorkersAwaited
    /\ [][phase = "done" => /\ solutions' = solutions
                            /\ solutionCount' = solutionCount]_vars

\* C24 witness: a call that has finished its own child waits for its
\* worker, which is still inside search()
C24_Witness ==
    \E t \in Tids :
       /\ HasTop(t, "join")
       /\ Top(t).fut \in RunningWorkers
       /\ Len(threads[Top(t).fut].stack) > 0

\* the flag is set and consulted
Cancelled == ~findAll /\ stopAfterFirst

\* C25: under find-first, a call of search() that begins when the
\* first-solution flag is set returns at once: its frame is popped, nothing
\* is propagated or branched on, no worker is started and nothing is
\* recorded; under find-all the flag is never set, and a call that begins
\* runs the body of search()
C25_Cancellation ==
    /\ [](findAll => ~stopAfterFirst)
    /\ [][\A t \in Tids :
             ( /\ HasTop(t, "start")
               /\ \/ Len(threads'[t].stack) # Len(threads[t].stack)
                  \/ threads'[t].stack[Len(threads[t].stack)] # Top(t) )
                => IF Cancelled
                   THEN /\ threads'[t].stack = Replaced(t, <<>>)
                        /\ \A x \in Tids \ {t} : threads'[x] = threads[x]
                        /\ UNCHANGED <<sharedVars, solPaths>>
                   ELSE threads'[t].stack = Replaced(t, searchBody(Top(t)))]_vars

\* C25 witness: under find-first, with the flag set, a worker is about to
\* begin a call of search() on a state that has undecided edges
C25_Witness ==
    \E w \in Tids \ {0} :
       /\ Cancelled
       /\ HasTop(w, "start")
       /\ Undecided(Top(w).s) # {}

\* path p leads to the call of path q or to a call above it
Prefix(p, q) == Len(p) <= Len(q) /\ SubSeq(q, 1, Len(p)) = p

\* the live calls of the subtree under the child val of the branch of path p
Subtree(p, val) == {g \in AllFrames : Prefix(Append(p, val), g.path)}

\* the calls of search() that explore their two children one after the
\* other and have called the ON child: frame i of thread t, the ON child
\* being the frame above it
CalledOnSequentially ==
    {threads[t].stack[i] : <<t, i>> \in
        {x \in Tids \X (1..(2 * Len(edges))) :
            /\ x[2] < Len(threads[x[1]].stack)
            /\ threads[x[1]].stack[x[2]].pc = "ret"
            /\ threads[x[1]].stack[x[2] + 1].path
                  = Append(threads[x[1]].stack[x[2]].path, ON)}}

\* no call of the ON subtree is live while the branch waits for its OFF
\* child, and no call of the OFF subtree is live once the ON child is called
OffSubtreeFirst ==
    /\ \A f \in AllFrames : f.pc = "afterOff" => Subtree(f.path, ON) = {}
    /\ \A f \in CalledOnSequentially : Subtree(f.path, OFF) = {}

\* C26: when both children of a branch survive and are explored one after
\* the other on the current thread, no call of the ON subtree starts before
\* every call of the OFF subtree has returned, and under find-first, when
\* the flag is set as the OFF child returns, the call returns without
\* calling the ON child
C26_OffBeforeOn ==
    /\ []OffSubtreeFirst
    /\ [][\A t \in Tids :
             ( /\ HasTop(t, "afterOff")
               /\ Cancelled
               /\ \/ Len(threads'[t].stack) # Len(threads[t].stack)
                  \/ threads'[t].stack[Len(threads[t].stack)] # Top(t) )
                => /\ threads'[t].stack = Replaced(t, <<>>)
                   /\ \A x \in Tids \ {t} : threads'[x] = threads[x]
                   /\ UNCHANGED <<sharedVars, solPaths>>]_vars

\* C26 witness: under find-first a sequential branch whose OFF child has
\* returned finds the flag set, while another sequential branch has its ON
\* child running
C26_Witness ==
    /\ Cancelled
    /\ \E t \in Tids : HasTop(t, "afterOff")
    /\ CalledOnSequentially # {}

\* C30: every state on which a call of search() starts and that the cheap
\* impossibility check rejects is a state on which propagateConstraints
\* reports a contradiction
C30_PrefilterOfPropagator ==
    \A f \in AllFrames :
       (f.pc = "start" /\ isDefinitelyUnsolvable(f.s))
          => ~propagateConstraints(f.s).ok

\* the runs of propagateConstraints in progress
Runs == {f \in AllFrames : f.pc = "propagating"}

\* the edges that were undecided in State s and are decided in State r
ForcedBetween(s, r) ==
    {e \in EdgeIds : At(s.edgeState, e) = 0 /\ At(r.edgeState, e) # 0}

\* the not-yet-processed part of a worklist
Pending(queue, pos) == SubSeq(queue, pos + 1, Len(queue))

\* the ids of a worklist part
Ids(list) == {list[k] : k \in 1..Len(list)}

\* C27: after the iteration of a rule that forced edges, both endpoints of
\* each forced edge and each clued cell beside it are flagged as queued, so
\* that each is examined again before the run ends
C27_ForcedEdgeEnqueuesNeighbours ==
    \A f \in Runs :
       f.q.result = "run"
          => \A e \in ForcedBetween(f.prev.s, f.q.s) :
                /\ At(f.q.pointQueued, At(edges, e).u) = 1
                /\ At(f.q.pointQueued, At(edges, e).v) = 1
                /\ \A c \in {At(edges, e).cellA, At(edges, e).cellB} \cap CellIds :
                      At(grid.clues, c) >= 0 => At(f.q.cellQueued, c) = 1

\* C28: while a run is in progress no id appears twice in the pending part
\* of its worklist, and the is-queued flag of an id is set exactly when the
\* id is in the pending part
C28_QueuedFlagsMatchWorklists ==
    \A f \in Runs :
       f.q.result = "run"
          => /\ Cardinality(Ids(Pending(f.q.cellQueue, f.q.cellPos)))
                   = Len(Pending(f.q.cellQueue, f.q.cellPos))
             /\ Cardinality(Ids(Pending(f.q.pointQueue, f.q.pointPos)))
                   = Len(Pending(f.q.pointQueue, f.q.pointPos))
             /\ \A c \in CellIds :
                   (At(f.q.cellQueued, c) = 1)
                      = (c \in Ids(Pending(f.q.cellQueue, f.q.cellPos)))
             /\ \A v \in PointIds :
                   (At(f.q.pointQueued, v) = 1)
                      = (v \in Ids(Pending(f.q.pointQueue, f.q.pointPos)))

\* C28 witness: a run in progress has pushed a cell and a vertex a second
\* time, the vertex while it was not pending, and still has pending ids
C28_Witness ==
    \E f \in Runs :
       /\ f.q.result = "run"
       /\ Len(f.q.cellQueue) > Len(clueCells)
       /\ Len(f.q.pointQueue) > numPoints
       /\ f.q.pointPos < Len(f.q.pointQueue)
       /\ \E c \in CellIds : At(f.q.cellQueued, c) = 1

\* the pushes a run has made on its two worklists
Enqueues(q) == Len(q.cellQueue) + Len(q.pointQueue)

\* 2*(|V| + |cluedCells|) + 4*(edges forced so far in the run f)
EnqueueBound(f) ==
    2 * (numPoints + Len(clueCells))
       + 4 * Cardinality(ForcedBetween(f.before, f.q.s))

\* C29: every run of propagateConstraints returns: it makes at most one
\* loop step for each push on its worklists, one test of a loop condition
\* between two of them, and two more; and the pushes it makes on its
\* worklists number at most 2*(|V| + |cluedCells|) + 4*(edges forced in the
\* run)
C29_RunTerminatesWithinBound ==
    \A f \in Runs :
       /\ Enqueues(f.q) <= EnqueueBound(f)
       /\ f.q.cellPos <= Len(f.q.cellQueue)
       /\ f.q.pointPos <= Len(f.q.pointQueue)
       /\ f.steps <= 2 * (f.q.cellPos + f.q.pointPos) + 2
       /\ f.steps <= 2 * EnqueueBound(f) + 2

\* C29 witness: a run that forced edges has drained both worklists, pushes
\* beyond the initial filling included, and is at its return
C29_Witness ==
    \E f \in Runs :
       /\ f.q.result = "ok"
       /\ ForcedBetween(f.before, f.q.s) # {}
       /\ Enqueues(f.q) > numPoints + Len(clueCells)
       /\ f.q.cellPos = Len(f.q.cellQueue)
       /\ f.q.pointPos = Len(f.q.pointQueue)

----------------------------------------------------------------------------
(* The graph builder on grids of every size up to MaxSide x MaxSide *)

\* Grid of n rows and m columns whose cells all hold clue k (-1: no clue)
UniformGrid(n, m, k) == [n |-> n, m |-> m, clues |-> Fill(n * m, k)]

BuildGrids ==
    {UniformGrid(n, m, k) : n \in 1..MaxSide, m \in 1..MaxSide, k \in -1..3}

InitBuild == Constructed(BuildGrids, {1})

NextBuild == \E allSolutions \in BOOLEAN : Run(allSolutions, 0, 1)

SpecBuild == InitBuild /\ [][NextBuild]_vars

\* the cells beside edge e
CellsOf(e) == {At(edges, e).cellA, At(edges, e).cellB} \ {-1}

\* the endpoints of edge e
EndsOf(e) == {At(edges, e).u, At(edges, e).v}

\* a list without repetition
Distinct(list) == Cardinality(Ids(list)) = Len(list)

\* C31: the built graph is bidirectionally consistent: every cell lists
\* exactly four distinct edges, every vertex lists 2, 3 or 4 distinct edges,
\* every edge has one or two adjacent cells, an edge is in a cell's list
\* exactly when the cell is one of the edge's adjacent cells, and an edge is
\* in a vertex's list exactly when the vertex is one of its endpoints
C31_GraphConsistent ==
    phase # "new" =>
       /\ Len(cellEdges) = grid.n * grid.m
       /\ Len(pointEdges) = numPoints
       /\ \A c \in CellIds :
             Len(At(cellEdges, c)) = 4 /\ Distinct(At(cellEdges, c))
       /\ \A v \in PointIds :
             Len(At(pointEdges, v)) \in {2, 3, 4} /\ Distinct(At(pointEdges, v))
       /\ \A e \in EdgeIds :
             /\ Cardinality(CellsOf(e)) \in {1, 2}
             /\ At(edges, e).cellA # At(edges, e).cellB
             /\ CellsOf(e) \subseteq CellIds
             /\ EndsOf(e) \subseteq PointIds
       /\ \A e \in EdgeIds : \A c \in CellIds :
             e \in Ids(At(cellEdges, c)) <=> c \in CellsOf(e)
       /\ \A e \in EdgeIds : \A v \in PointIds :
             e \in Ids(At(pointEdges, v)) <=> v \in EndsOf(e)

\* a built 3x2 grid: it has vertices of 2, 3 and 4 edges and edges of one and
\* of two cells
C31_Witness ==
    /\ phase # "new"
    /\ grid.n = 3 /\ grid.m = 2
    /\ \A k \in {2, 3, 4} : \E v \in PointIds : Len(At(pointEdges, v)) = k
    /\ \A k \in {1, 2} : \E e \in EdgeIds : Cardinality(CellsOf(e)) = k

\* C32: the horizontal edge at (r, c) has id r*cols + c, the vertical edge at
\* (r, c) has id (rows+1)*cols + r*(cols+1) + c, there are
\* (rows+1)*cols + rows*(cols+1) edges, the two lookup arrays return these
\* ids, the cell at (r, c) has id r*cols + c and the vertex at (r, c) has id
\* r*(cols+1) + c; the edge of an id joins the vertices and borders the cells
\* of its position
C32_EdgeNumbering ==
    phase # "new" =>
       LET rows == grid.n
           cols == grid.m
           V(r, c) == r * (cols + 1) + c
           K(r, c) == r * cols + c
           H(r, c) == r * cols + c
           W(r, c) == (rows + 1) * cols + r * (cols + 1) + c
       IN /\ Len(edges) = (rows + 1) * cols + rows * (cols + 1)
          /\ Len(horizEdgeIndex) = (rows + 1) * cols
          /\ Len(vertEdgeIndex) = rows * (cols + 1)
          /\ \A r \in 0..rows : \A c \in 0..(cols - 1) :
                /\ At(horizEdgeIndex, r * cols + c) = H(r, c)
                /\ At(edges, H(r, c)) =
                      [u |-> V(r, c), v |-> V(r, c + 1),
                       cellA |-> IF r > 0 THEN K(r - 1, c) ELSE -1,
                       cellB |-> IF r < rows THEN K(r, c) ELSE -1]
          /\ \A r \in 0..(rows - 1) : \A c \in 0..cols :
                /\ At(vertEdgeIndex, r * (cols + 1) + c) = W(r, c)
                /\ At(edges, W(r, c)) =
                      [u |-> V(r, c), v |-> V(r + 1, c),
                       cellA |-> IF c > 0 THEN K(r, c - 1) ELSE -1,
                       cellB |-> IF c < cols THEN K(r, c) ELSE -1]
          /\ \A r \in 0..(rows - 1) : \A c \in 0..(cols - 1) :
                cellIndex(grid, r, c) = K(r, c)
          /\ \A r \in 0..rows : \A c \in 0..cols :
                pointId(cols, r, c) = V(r, c)

\* a built 2x3 grid, whose last vertical edge (1, 3) has id 9 + 4 + 3 = 16 of
\* 17 edges
C32_Witness ==
    /\ phase # "new"
    /\ grid.n = 2 /\ grid.m = 3
    /\ Len(edges) = 17
    /\ At(vertEdgeIndex, 7) = 16
    /\ At(horizEdgeIndex, 8) = 8

----------------------------------------------------------------------------
(* Decisions are never revised *)

\* State b keeps every decided edge of State a, and holds only the three
\* edge values
Keeps(a, b) ==
    \A e \in EdgeIds :
       /\ At(b.edgeState, e) \in {0, 1, OffChar}
       /\ At(a.edgeState, e) # 0 => At(b.edgeState, e) = At(a.edgeState, e)

\* C35: neither applyDecision nor propagateConstraints changes an edge that
\* is ON or OFF, whether the call succeeds or fails, and no single iteration
\* of the propagation loops does: an edge only moves from undecided to ON or
\* from undecided to OFF
C35_DecisionsMonotone ==
    \A f \in AllFrames :
       /\ f.pc = "propagating"
             => Keeps(f.prev.s, f.q.s) /\ Keeps(f.before, f.q.s)
       /\ f.pc \in {"applied", "failed", "propagated", "contradiction"}
             => Keeps(f.before, f.s)

\* a propagation that was entered with an ON edge and an OFF edge, both
\* made by applyDecision, and forced further edges
C35_Witness ==
    \E f \in AllFrames :
       /\ f.pc = "propagated"
       /\ \E e \in EdgeIds : At(f.before.edgeState, e) = 1
       /\ \E e \in EdgeIds : At(f.before.edgeState, e) = OffChar
       /\ ForcedBetween(f.before, f.s) # {}

----------------------------------------------------------------------------
(* Recorded solutions are complete *)

\* C37: every recorded solution is a complete assignment: each entry of its
\* edgeState is ON or OFF; the block that records is reached only with a
\* State without undecided edge, of which the solution is the snapshot
C37_RecordedComplete ==
    /\ \A i \in 1..Len(solutions) : \A e \in EdgeIds :
          At(solutions[i].edgeState, e) \in {1, OffChar}
    /\ \A f \in AllFrames :
          f.pc = "store"
             => Undecided(f.s) = {} /\ f.sol.edgeState = f.s.edgeState

\* a recorded solution of the 3x3 grid, with ON and OFF edges
C37_Witness ==
    /\ grid = GridPlus
    /\ \E i \in 1..Len(solutions) :
          /\ \E e \in EdgeIds : At(solutions[i].edgeState, e) = 1
          /\ \E e \in EdgeIds : At(solutions[i].edgeState, e) = OffChar

----------------------------------------------------------------------------
(* No assignment is recorded twice *)

\* C36: under find-all any two recorded solutions differ in the decision of
\* at least one edge, in every interleaving of the workers
C36_NoDuplicateSolution ==
    findAll =>
       \A i, j \in 1..Len(solutions) :
          i # j => \E e \in EdgeIds :
                      At(solutions[i].edgeState, e) # At(solutions[j].edgeState, e)

\* find-all recorded at least two solutions while a worker was running
C36_Witness ==
    /\ findAll
    /\ Len(solutions) >= 2
    /\ \E w \in Tids \ {0} : threads[w].st = "run"

----------------------------------------------------------------------------
(* Soundness of propagation *)

\* complete assignment a gives every decided edge of State s its value
Agrees(a, s) ==
    \A e \in EdgeIds : At(s.edgeState, e) # 0 => At(a, e) = At(s.edgeState, e)

\* the valid loops that extend State s
Extensions(s) == {a \in Assignments : ValidLoop(a) /\ Agrees(a, s)}

\* C34: every complete assignment that meets the clue, vertex-degree and
\* single-cycle conditions and agrees with the decided edges of the State
\* propagateConstraints was called on agrees with the decided edges of the
\* State it leaves, and the call returns false only when no such assignment
\* exists
C34_PropagationSound ==
    \A f \in LastCall :
       f.pc \in {"propagated", "contradiction"}
          => \A a \in Extensions(f.before) :
                f.pc = "propagated" /\ Agrees(a, f.s)

\* a propagation that forced edges of a State some valid loop extends
C34_Witness ==
    \E f \in LastCall :
       /\ f.pc = "propagated"
       /\ Undecided(f.before) # EdgeIds
       /\ ForcedBetween(f.before, f.s) # {}
       /\ Extensions(f.before) # {}

----------------------------------------------------------------------------
(* Termination of the search *)

RECURSIVE Pow2(_)
Pow2(k) == IF k = 0 THEN 1 ELSE 2 * Pow2(k - 1)

\* a bound on the steps a call of search() on a State of u undecided edges
\* and the calls below it can take: Weight(u) > 2 * Weight(u - 1) + 4
Weight(u) == 16 * Pow2(u) - 8

WeightOf(s) == Weight(Cardinality(Undecided(s)))

\* the steps a live call can still take, the calls it will make included
FrameWeight(f) ==
    CASE f.pc = "start" -> WeightOf(f.s)
      [] f.pc = "fork" -> WeightOf(f.off) + WeightOf(f.on) + 4
      [] f.pc = "spawn" -> WeightOf(f.off) + WeightOf(f.on) + 3
      [] f.pc = "afterOff" -> WeightOf(f.on) + 2
      [] OTHER -> 1

RECURSIVE StackWeight(_, _)
StackWeight(stack, i) ==
    IF i > Len(stack) THEN 0
    ELSE FrameWeight(stack[i]) + StackWeight(stack, i + 1)

RECURSIVE ThreadsWeight(_)
ThreadsWeight(t) ==
    IF t \notin Tids THEN 0
    ELSE (IF threads[t].st = "run" THEN 1 ELSE 0)
         + StackWeight(threads[t].stack, 1) + ThreadsWeight(t + 1)

\* the steps run() can still take
Measure ==
    IF phase = "new"
    THEN Weight((grid.n + 1) * grid.m + grid.n * (grid.m + 1)) + 2
    ELSE ThreadsWeight(0)

\* thread t has a next step
CanStep(t) ==
    /\ threads[t].st = "run"
    /\ \/ Len(threads[t].stack) = 0
       \/ Top(t).pc \notin {"join", "spawn"}
       \/ Top(t).pc = "join" /\ Top(t).fut = FutReady
       \/ Top(t).pc = "spawn" /\ \E w \in Tids : threads[w].st = "idle"

\* a call that has not started is made on a State with strictly fewer
\* undecided edges than the State of the call that made it
FewerThanParent ==
    /\ \A t \in Tids : \A i \in 1..(Len(threads[t].stack) - 1) :
          LET p == threads[t].stack[i]
              c == threads[t].stack[i + 1]
          IN /\ c.depth = p.depth + 1
             /\ c.pc = "start" /\ p.s # EmptyState
                   => /\ Undecided(c.s) \subseteq Undecided(p.s)
                      /\ Undecided(c.s) # Undecided(p.s)
    /\ \A f \in AllFrames :
          f.pc = "join" /\ f.fut \in RunningWorkers
             /\ Len(threads[f.fut].stack) = 1 /\ threads[f.fut].stack[1].pc = "start"
             => /\ threads[f.fut].stack[1].depth = f.depth + 1
                /\ Undecided(threads[f.fut].stack[1].s) \subseteq Undecided(f.s)
                /\ Undecided(threads[f.fut].stack[1].s) # Undecided(f.s)

\* the depth of a call is at most the number of edges its State has decided
DepthWithinEdges ==
    \A f \in AllFrames :
       /\ f.depth <= Len(edges)
       /\ f.pc = "start" => f.depth + Cardinality(Undecided(f.s)) <= Len(edges)

\* every running thread has a next step or waits for a running worker, and
\* while run() has not returned some thread has a next step
NeverStuck ==
    /\ \A t \in Tids :
          threads[t].st = "run"
             => CanStep(t) \/ (Top(t).pc = "join" /\ Top(t).fut \in RunningWorkers)
    /\ phase = "running" => \E t \in Tids : CanStep(t)

\* C38: the search terminates in both modes: every recursive call is made on
\* a State with strictly fewer undecided edges than its parent's, the
\* recursion depth never exceeds the number of edges, no thread is ever
\* stuck before run() returns, and every step of run(), of a call and of a
\* worker lowers a natural-number measure, so that every worker finishes
\* and run() returns after finitely many steps
C38_SearchTerminates ==
    /\ [](FewerThanParent /\ DepthWithinEdges /\ NeverStuck /\ Measure >= 0)
    /\ [][Measure' < Measure]_vars

\* a worker was spawned from a call of depth at least 1 and has itself made
\* a call, under find-all
C38_Witness ==
    /\ findAll
    /\ \E w \in RunningWorkers :
          /\ Len(threads[w].stack) >= 2
          /\ threads[w].stack[1].depth >= 2
          /\ Top(w).pc = "start"

----------------------------------------------------------------------------
(* The parallelisation depth limit *)

\* a 2x3 grid whose search branches two ways at depth 10, its depth limit
GridDeep == [n |-> 2, m |-> 3, clues |-> <<1, -1, -1, -1, -1, 1>>]

\* the worker count run() is given on GridDeep
DeepWorkers == 3

InitDepth == Constructed({GridDeep}, {1})

NextDepth ==
    \/ Run(FALSE, DeepWorkers, 1)
    \/ \E t \in Tids : Enter(t)
    \/ \E t \in Tids : Store(t)
    \/ \E t \in Tids : Fork(t)
    \/ \E t \in Tids : Spawn(t)
    \/ \E t \in Tids : AfterOff(t)
    \/ \E t \in Tids : Return(t)
    \/ \E w \in Tids : WorkerExit(w)
    \/ \E t \in Tids : Join(t)
    \/ RunReturn

SpecDepth == InitDepth /\ [][NextDepth]_vars

\* a grid of one row and a cells of which the first k hold a clue
Pattern(a, k) ==
    [n |-> 1, m |-> a, clues |-> [i \in 1..a |-> IF i <= k THEN 2 ELSE -1]]

\* the least clue count of density at least 0.3 on a cells
DenseFrom(a) == (3 * a + 9) \div 10

\* the cell counts on both sides of each step of the depth table
LimitAreas == {a \in {6, 25, 26, 49, 50, 64, 65, 100, 101, 144, 145, 225, 226} :
                 a <= MaxArea}

\* per cell count: no clue, the two clue counts around density 0.3, all clues
LimitGrids ==
    UNION {{Pattern(a, 0), Pattern(a, DenseFrom(a) - 1), Pattern(a, DenseFrom(a)),
            Pattern(a, a)} : a \in LimitAreas}

Area(g) == g.n * g.m

Clued(g) == Cardinality({i \in 1..Len(g.clues) : g.clues[i] >= 0})

\* clue density of at least 0.3
Dense(g) == 10 * Clued(g) >= 3 * Area(g)

\* the limit of every grid of LimitGrids is between 10 and 45, and of two
\* grids of equal area the dense one never has the larger limit
LimitsOrdered ==
    /\ \A g \in LimitGrids : calculateOptimalParallelDepth(g) \in 10..45
    /\ \A g1, g2 \in LimitGrids :
          Area(g1) = Area(g2) /\ Dense(g1) /\ ~Dense(g2)
             => calculateOptimalParallelDepth(g1) <= calculateOptimalParallelDepth(g2)

\* a call that forked, or is about to, has a depth below the limit, and the
\* worker's call is one deeper
SpawnBelowLimit ==
    /\ \A f \in AllFrames :
          f.pc \in {"spawn", "join"} => f.depth < maxParallelDepth
    /\ \A w \in RunningWorkers :
          Len(threads[w].stack) > 0 => threads[w].stack[1].depth <= maxParallelDepth

\* after run() set it, the limit is the value computed for the grid, at most
\* 45, and no larger than that of any sparse grid of the same area
LimitOfGrid ==
    phase # "new" =>
       /\ maxParallelDepth = calculateOptimalParallelDepth(grid)
       /\ maxParallelDepth <= 45
       /\ Dense(grid) =>
             \A g \in LimitGrids :
                Area(g) = Area(grid) /\ ~Dense(g)
                   => maxParallelDepth <= calculateOptimalParallelDepth(g)

\* C33: a worker is spawned only from a call of search() whose depth is
\* below maxParallelDepth; maxParallelDepth is set once per solve, by run()
\* before the search starts; it never exceeds 45; and of two grids of equal
\* area one of clue density at least 0.3 never gets a larger limit than one
\* of density below 0.3
C33_DepthLimit ==
    /\ [](SpawnBelowLimit /\ LimitOfGrid /\ LimitsOrdered)
    /\ [][maxParallelDepth' # maxParallelDepth
             => phase = "new" /\ phase' = "running"]_vars

\* a call at the depth limit is about to branch two ways while a worker slot
\* is free, next to a call that is waiting for the worker it spawned
C33_Witness ==
    /\ \E f \in AllFrames : f.pc = "fork" /\ f.depth >= maxParallelDepth
    /\ activeThreads < maxThreads
    /\ \E f \in AllFrames : f.pc = "join"

====
